---- MODULE Spec2Model ----
(***************************************************************************)
(* Analysis orchestration of QL_Tool_3: AnalysisPipeline                   *)
(* (js/core/pipeline.js) with the remote analysis clients it drives.       *)
(*                                                                         *)
(* The host is single-threaded: one action of the model is one task of the *)
(* event loop together with the microtasks it triggers.  The suspension    *)
(* points are the awaits on a remote call; a suspended runPhase() closure  *)
(* is an element of ops, a suspended start() invocation an element of      *)
(* frames.                                                                 *)
(***************************************************************************)
EXTENDS Integers, Sequences, FiniteSets, TLC

\* ------------------------------------------------------------------ bounds
MaxStarts  == 2      \* accepted start() calls
MaxRetries == 1      \* accepted retryPhase() calls
MaxStale   == 1      \* remote calls still outstanding when a start() is accepted
MaxStartsCalls == 1  \* accepted start() calls where rejected calls are observed
MaxNow     == 2      \* readings of Date.now() where the store is called on its own
PruneLimit == 0      \* entries pruneAssessmentCache keeps (20 in the program): as
                     \* there, a full archive exceeds it by more than one entry
ClockStep  == 125    \* seconds by which the clock advances between two tasks
MaxTicks   == 2      \* advances of the clock while the progress is observed
MaxInits   == 3      \* calls of StackProxy.init()
MaxSubmits == 3      \* calls of submitScore() / submitAllScores()
StackLimit == 3      \* nested pruneAssessmentCache frames the call stack holds
ArchiveLimit == 2    \* entries the archive keeps (50 in cacheFullAssessment)

\* ------------------------------------------------------- phase registry
PhaseKeys   == <<"company", "team", "funding", "competitive", "market", "iprisk">>
Keys        == {PhaseKeys[i] : i \in 1..Len(PhaseKeys)}
GatingKey   == "company"
CohortKeys  == <<"team", "funding", "competitive", "market", "iprisk">>
Cohort      == {CohortKeys[i] : i \in 1..Len(CohortKeys)}

\* ------------------------------------------------------------- tokens
NoTime  == -1        \* null startTime / endTime
NoData  == <<>>      \* null data, null description
NoError == "none"    \* null error
NoOp    == 0         \* phase.promise absent

\* inputs offered to start(): a url string and a file argument
Inputs == {<<"", "nofile">>, <<"  ", "notafile">>, <<"localhost", "nofile">>,
           <<"not a url", "nofile">>, <<"a.com", "nofile">>, <<"https://a.com", "notafile">>}

VARIABLES
  status, data, error, startTime, endTime, promise,   \* the fields of this.phases
  runStart,            \* this.startTime
  abortController,     \* "null" | "live" | "aborted"
  companyUrl, companyFile, companyDescription,
  isRunning,
  activePhases,        \* Set in insertion order
  ops,                 \* suspended runPhase() closures, each awaiting its remote call
  frames,              \* suspended start() invocations
  started, retried,    \* numbers of accepted start() / retryPhase() calls
  now,                 \* the clock read by Date.now(): it advances from one accepted
                       \* start() to the next
  out,                 \* what the last task emitted, threw or returned
  stateSlot,           \* localStorage item 'noblereach_qa_state': the checkpoint
  cacheSlot,           \* localStorage item 'noblereach_assessments': the archive
  storeOut,            \* the last store operation under storage faults: the
                       \* setItem calls it made and what it threw to its caller
  viewData,            \* assessmentView.data
  appState,            \* App.state
  proxy,               \* StackProxy: config, configPromise and its config fetches
  sheet                \* SmartsheetIntegration: state and its submission in flight

vars == <<status, data, error, startTime, endTime, promise, runStart,
          abortController, companyUrl, companyFile, companyDescription,
          isRunning, activePhases, ops, frames, started, retried, now, out,
          stateSlot, cacheSlot, storeOut, viewData, appState, proxy, sheet>>

pipelineVars == <<status, data, error, startTime, endTime, promise, runStart,
                  abortController, companyUrl, companyFile, companyDescription,
                  isRunning, activePhases, ops, frames, started, retried>>

storeVars == <<stateSlot, cacheSlot, storeOut>>

serviceVars == <<proxy, sheet>>

hostVars == <<viewData, appState, serviceVars>>

phaseVars == <<status, data, error, startTime, endTime>>

\* the whole program state as one value, threaded through the sequential code
Cur ==
  [status |-> status, data |-> data, error |-> error, startTime |-> startTime,
   endTime |-> endTime, promise |-> promise, runStart |-> runStart,
   abortController |-> abortController, companyUrl |-> companyUrl,
   companyFile |-> companyFile, companyDescription |-> companyDescription,
   isRunning |-> isRunning, activePhases |-> activePhases, ops |-> ops,
   frames |-> frames, started |-> started, retried |-> retried, now |-> now,
   out |-> <<>>]

InstallPipeline(st) ==
  /\ status' = st.status
  /\ data' = st.data
  /\ error' = st.error
  /\ startTime' = st.startTime
  /\ endTime' = st.endTime
  /\ promise' = st.promise
  /\ runStart' = st.runStart
  /\ abortController' = st.abortController
  /\ companyUrl' = st.companyUrl
  /\ companyFile' = st.companyFile
  /\ companyDescription' = st.companyDescription
  /\ isRunning' = st.isRunning
  /\ activePhases' = st.activePhases
  /\ ops' = st.ops
  /\ frames' = st.frames
  /\ started' = st.started
  /\ retried' = st.retried
  /\ now' = st.now
  /\ out' = st.out

\* a task of the pipeline alone: nothing is subscribed to its events
Install(st) ==
  /\ InstallPipeline(st)
  /\ UNCHANGED <<storeVars, hostVars>>

\* -------------------------------------------------- values kept in storage
Null     == "null"
NoKey    == <<>>                         \* assessmentKey: null
NoPhases == [k \in {} |-> NoData]        \* completedPhases: {}
NoScores == [d \in {} |-> Null]          \* userScores: {}
NoInput  == [url |-> Null, scaName |-> Null, fileName |-> Null]   \* companyInput: null
NoEntries == <<>>                        \* the archive object {}
Version  == "2.1"

\* createEmptyState() at time t
createEmptyState(t) ==
  [version |-> Version, timestamp |-> t, status |-> "idle", companyInput |-> NoInput,
   completedPhases |-> NoPhases, userScores |-> NoScores, scaName |-> Null,
   smartsheetRowId |-> Null, assessmentKey |-> NoKey, finalRecommendation |-> "",
   customVentureName |-> Null]

\* a localStorage item: absent ("none"), a string that JSON.parse turns into a
\* value ("json"), or a string on which JSON.parse throws ("text")
NoItem      == [kind |-> "none", value |-> createEmptyState(0)]
NoCacheItem == [kind |-> "none", value |-> NoEntries]

\* ------------------------------------------------------------ constructor
Init ==
  /\ status = [k \in Keys |-> "pending"]
  /\ data = [k \in Keys |-> NoData]
  /\ error = [k \in Keys |-> NoError]
  /\ startTime = [k \in Keys |-> NoTime]
  /\ endTime = [k \in Keys |-> NoTime]
  /\ promise = [k \in Keys |-> NoOp]
  /\ runStart = NoTime
  /\ abortController = "null"
  /\ companyUrl = ""
  /\ companyFile = "nofile"
  /\ companyDescription = NoData
  /\ isRunning = FALSE
  /\ activePhases = <<>>
  /\ ops = {}
  /\ frames = {}
  /\ started = 0
  /\ retried = 0
  /\ now = 0
  /\ out = <<>>
  /\ stateSlot = NoItem
  /\ cacheSlot = NoCacheItem
  /\ storeOut = [writes |-> 0, threw |-> "none"]
  /\ viewData = [k \in Keys |-> NoData]
  /\ appState = "idle"
  /\ proxy = [config |-> "null", configPromise |-> "null", fetching |-> 0,
              fetched |-> 0, inits |-> 0]
  /\ sheet = [isSubmitting |-> FALSE, currentRowId |-> "null", inflight |-> {},
              rows |-> 0, submitted |-> 0]

\* ------------------------------------------------------------ helpers
Min(S) == CHOOSE x \in S : \A y \in S : x <= y

SeqWithout(s, x) == SelectSeq(s, LAMBDA y : y # x)

SeqAdd(s, x) == IF \E i \in 1..Len(s) : s[i] = x THEN s ELSE Append(s, x)

\* one observable output of a task: an emitted event, or the rejection of a call;
\* run is the start() invocation that emitted it (0: not emitted by start())
RunEvent(type, run, phase, msg, failed, results) ==
  [type |-> type, run |-> run, phase |-> phase, msg |-> msg, failed |-> failed,
   results |-> results]

Event(type, phase, msg, failed, results) == RunEvent(type, 0, phase, msg, failed, results)

NoResults == [k \in {} |-> NoData]

\* emit(event, data): the registered callback runs synchronously
emit(st, ev) == [st EXCEPT !.out = Append(@, ev)]

\* a throw out of an async function: the returned promise is rejected
Reject(st, call, run, key, message) ==
  [st EXCEPT !.out = Append(@, RunEvent(call, run, key, message, {}, NoResults))]

\* ---------------------------------------------------- Validators.validateUrl
Trim(url) == IF url = "  " THEN "" ELSE url

HasScheme(url) == url = "https://a.com"

WithScheme(url) ==
  CASE url = "a.com" -> "https://a.com"
    [] url = "localhost" -> "https://localhost"
    [] url = "not a url" -> "https://not a url"
    [] OTHER -> url

\* new URL(s) throws on a host with spaces
UrlParses(full) == full # "https://not a url"

HostHasDot(full) == full = "https://a.com"

validateUrl(url) ==
  IF url = "" THEN [valid |-> FALSE, url |-> "", error |-> "URL is required"]
  ELSE IF Trim(url) = "" THEN [valid |-> FALSE, url |-> "", error |-> "URL cannot be empty"]
  ELSE LET validUrl == IF HasScheme(Trim(url)) THEN Trim(url) ELSE WithScheme(Trim(url))
       IN IF ~UrlParses(validUrl)
            THEN [valid |-> FALSE, url |-> "", error |-> "Invalid URL format"]
          ELSE IF ~HostHasDot(validUrl)
            THEN [valid |-> FALSE, url |-> "", error |-> "Invalid domain name"]
          ELSE [valid |-> TRUE, url |-> validUrl, error |-> ""]

IsFile(file) == file = "doc.pdf"

\* ------------------------------------------------------ remote responses
\* CompanyAPI.processResponse: { full, short } for the input that was sent
CompanyResponse(arg) == <<"company", arg[1], arg[2]>>

\* CompanyAPI.getShortDescription
getShortDescription(response) ==
  IF response = NoData THEN NoData ELSE <<"short", response[2], response[3]>>

\* the processed response of a cohort client for the description it was sent
CohortResponse(k, description) == <<k, description[2], description[3]>>

\* --------------------------------------------------- the abort controller
\* new AbortController(): the calls listening on the previous one can no longer
\* be reached; also the effect of this.abortController = null
Detach(S) == {[o EXCEPT !.linked = FALSE] : o \in S}

\* abortController.abort(): fires the listeners added while it was not aborted
AbortCalls(S) ==
  {IF o.linked /\ o.call = "inflight"
     THEN [o EXCEPT !.call = "aborted", !.linked = FALSE]
     ELSE o : o \in S}

abort(st) ==
  IF st.abortController = "live"
    THEN [st EXCEPT !.abortController = "aborted", !.ops = AbortCalls(@)]
    ELSE st

\* ------------------------------------------------------------ getResults
getResults(st) ==
  [k \in Keys \cup {"companyDescription"} |->
     IF k = "companyDescription" THEN st.companyDescription ELSE st.data[k]]

getCompletedCount(st) == Cardinality({k \in Keys : st.status[k] = "completed"})

\* ----------------------------------------------------------- executePhase
KeyIndex(k) == CHOOSE i \in 1..Len(PhaseKeys) : PhaseKeys[i] = k

OpId(o) == <<o.key, o.n>>

FreeSlot(st, k) ==
  Min({n \in 1..(Cardinality(st.ops) + 1) : ~\E o \in st.ops : o.key = k /\ o.n = n})

\* run: the number of start() calls accepted when the call was issued
NewOp(st, k, n, call, arg, err) ==
  [key |-> k, n |-> n, run |-> st.started, call |-> call,
   linked |-> (call = "inflight" /\ st.abortController = "live"), arg |-> arg, err |-> err]

\* run<Phase>Analysis up to its await: the remote call it issues with the run's
\* abort signal, or the error it throws before any call (call = "none")
runAnalysis(st, k, n) ==
  IF k = GatingKey
    THEN IF st.abortController = "null"
           THEN NewOp(st, k, n, "none", NoData, "TypeError")
         ELSE IF st.companyUrl = "" /\ ~IsFile(st.companyFile)
           THEN NewOp(st, k, n, "none", NoData, "Either a company URL or document is required")
         ELSE NewOp(st, k, n, "inflight", <<st.companyUrl, st.companyFile>>, "")
    ELSE IF st.companyDescription = NoData
           THEN NewOp(st, k, n, "none", NoData, "Company description not available")
         ELSE IF st.abortController = "null"
           THEN NewOp(st, k, n, "none", NoData, "TypeError")
         ELSE NewOp(st, k, n, "inflight", st.companyDescription, "")

executePhase(st, k) ==
  IF st.promise[k] # NoOp
    THEN st
    ELSE LET n  == FreeSlot(st, k)
             s1 == [st EXCEPT !.status[k] = "active",
                              !.startTime[k] = st.now,
                              !.endTime[k] = NoTime,
                              !.error[k] = NoError,
                              !.activePhases = SeqAdd(@, k)]
             s2 == emit(s1, Event("phaseStart", k, "", {}, NoResults))
         IN [s2 EXCEPT !.ops = @ \cup {runAnalysis(s2, k, n)}, !.promise[k] = n]

\* ------------------------------------------- start(): after its awaits
\* finally { isRunning = false; abortController = null; activePhases.clear() }
startFinally(st, f) ==
  [st EXCEPT !.isRunning = FALSE,
             !.abortController = "null",
             !.ops = Detach(@),
             !.activePhases = <<>>,
             !.frames = @ \ {f}]

\* catch (error) { abort; emit('error'); throw }
startCatch(st, f, msg) ==
  LET s1 == abort(st)
      s2 == emit(s1, RunEvent("error", f.run, "", msg, {}, NoResults))
  IN startFinally(Reject(s2, "start rejected", f.run, "", msg), f)

\* the code after Promise.allSettled
startSettled(st, f) ==
  LET allSucceeded == \A k \in Keys : st.status[k] = "completed"
      s1 == IF allSucceeded
              THEN emit(emit(st, RunEvent("allComplete", f.run, "", "", {}, getResults(st))),
                        RunEvent("complete", f.run, "", "", {}, getResults(st)))
              ELSE emit(st, RunEvent("partialComplete", f.run, "", "",
                                     {k \in Keys : st.status[k] = "error"}, getResults(st)))
  IN startFinally(s1, f)

RECURSIVE executeAll(_, _)
executeAll(st, ks) ==
  IF ks = <<>> THEN st ELSE executeAll(executePhase(st, Head(ks)), Tail(ks))

\* the code after `await this.executePhase('company')` up to Promise.allSettled
startCohort(st, f) ==
  LET s1 == emit(st, RunEvent("overviewReady", f.run, GatingKey, "", {},
                              [k \in {GatingKey} |-> st.data[GatingKey]]))
      s2 == executeAll(s1, CohortKeys)
      g  == [f EXCEPT !.stage = "cohort", !.waiting = {<<k, s2.promise[k]>> : k \in Cohort}]
  IN [s2 EXCEPT !.frames = (@ \ {f}) \cup {g}]

\* a promise awaited by the start() invocation f has settled
startResume(st, f, id, ok, msg) ==
  IF f.stage = "gating"
    THEN IF ok THEN startCohort(st, f) ELSE startCatch(st, f, msg)
    ELSE LET g == [f EXCEPT !.waiting = @ \ {id}]
         IN IF g.waiting = {}
              THEN startSettled(st, f)
              ELSE [st EXCEPT !.frames = (@ \ {f}) \cup {g}]

\* a settled promise that wakes no start() invocation
resumeFrames_WakesNone(st, runs, id, ok, msg) == st

RECURSIVE resumeFrames(_, _, _, _, _)
resumeFrames(st, runs, id, ok, msg) ==
  IF runs = {} THEN st
  ELSE LET r == Min(runs)
           f == CHOOSE x \in st.frames : x.run = r
       IN resumeFrames(startResume(st, f, id, ok, msg), runs \ {r}, id, ok, msg)

\* ------------------------------------- runPhase(): after its await
runPhaseResume(st, op, ok) ==
  LET k  == op.key
      s0 == [st EXCEPT !.ops = {o \in @ : OpId(o) # OpId(op)}]
      result == IF k = GatingKey THEN CompanyResponse(op.arg) ELSE CohortResponse(k, op.arg)
      msg == IF op.err = "" THEN "remote call failed" ELSE op.err
      s1 == IF ok
              THEN LET sa == IF k = GatingKey
                               THEN [s0 EXCEPT !.companyDescription = getShortDescription(result)]
                               ELSE s0
                       sb == [sa EXCEPT !.data[k] = result,
                                        !.status[k] = "completed",
                                        !.endTime[k] = sa.now]
                   IN emit(sb, Event("phaseComplete", k, "", {}, [x \in {k} |-> result]))
              ELSE emit([s0 EXCEPT !.status[k] = "error",
                                   !.error[k] = msg,
                                   !.endTime[k] = s0.now],
                        Event("phaseError", k, msg, {}, NoResults))
      s2 == [s1 EXCEPT !.activePhases = SeqWithout(@, k), !.promise[k] = NoOp]
      waiting == {f.run : f \in {x \in s2.frames : OpId(op) \in x.waiting}}
  IN resumeFrames(s2, waiting, OpId(op), ok, msg)

\* runPhase() after its await when the call succeeded and the callback registered
\* for phaseComplete throws: emit() lets the exception through into the catch
runPhaseCallbackThrows(st, op) ==
  LET k  == op.key
      s0 == [st EXCEPT !.ops = {o \in @ : OpId(o) # OpId(op)}]
      result == IF k = GatingKey THEN CompanyResponse(op.arg) ELSE CohortResponse(k, op.arg)
      msg == "callback failed"
      sa == IF k = GatingKey
              THEN [s0 EXCEPT !.companyDescription = getShortDescription(result)]
              ELSE s0
      sb == emit([sa EXCEPT !.data[k] = result,
                            !.status[k] = "completed",
                            !.endTime[k] = sa.now],
                 Event("phaseComplete", k, "", {}, [x \in {k} |-> result]))
      sc == emit([sb EXCEPT !.status[k] = "error",
                            !.error[k] = msg,
                            !.endTime[k] = sb.now],
                 Event("phaseError", k, msg, {}, NoResults))
      s2 == [sc EXCEPT !.activePhases = SeqWithout(@, k), !.promise[k] = NoOp]
      waiting == {f.run : f \in {x \in s2.frames : OpId(op) \in x.waiting}}
  IN resumeFrames(s2, waiting, OpId(op), FALSE, msg)

\* the microtasks of the task: the runPhase() closures that threw before any call
RECURSIVE Drain(_)
Drain(st) ==
  LET thrown == {o \in st.ops : o.call = "none"}
  IN IF thrown = {} THEN st
     ELSE LET i == Min({KeyIndex(o.key) : o \in thrown})
              o == CHOOSE x \in thrown : KeyIndex(x.key) = i
                                          /\ \A y \in thrown : y.key = x.key => x.n <= y.n
          IN Drain(runPhaseResume(st, o, FALSE))

\* ------------------------------------------------------------------ start
ResetPhases(st) ==
  [st EXCEPT !.status = [k \in Keys |-> "pending"],
             !.startTime = [k \in Keys |-> NoTime],
             !.endTime = [k \in Keys |-> NoTime],
             !.data = [k \in Keys |-> NoData],
             !.error = [k \in Keys |-> NoError],
             !.promise = [k \in Keys |-> NoOp]]

HasUrl(url) == url # "" /\ Trim(url) # ""

\* start(): the run it sets up once the input is accepted, up to its first await
startRun(st, url, file) ==
  LET s1 == [st EXCEPT !.companyUrl = IF HasUrl(url) THEN validateUrl(url).url ELSE "",
                       !.companyFile = IF IsFile(file) THEN file ELSE "nofile",
                       !.companyDescription = NoData,
                       !.now = @ + 1,
                       !.runStart = st.now + 1,
                       !.abortController = "live",
                       !.ops = Detach(@),
                       !.isRunning = TRUE,
                       !.activePhases = <<>>,
                       !.started = @ + 1]
      s2 == emit(ResetPhases(s1), RunEvent("start", s1.started, "", "", {}, NoResults))
      s3 == executePhase(s2, GatingKey)
      f  == [run |-> s3.started, stage |-> "gating",
             waiting |-> {<<GatingKey, s3.promise[GatingKey]>>}]
  IN [s3 EXCEPT !.frames = @ \cup {f}]

\* start() clearing the previous run before it has validated the input
start_ClearsBeforeValidation(st, url, file) ==
  IF st.isRunning
    THEN Reject(st, "start rejected", 0, "", "Analysis already in progress")
    ELSE
      LET s0 == ResetPhases([st EXCEPT !.companyDescription = NoData])
      IN IF ~HasUrl(url) /\ ~IsFile(file)
           THEN Reject(s0, "start rejected", 0, "",
                       "Either a company URL or document is required")
         ELSE IF HasUrl(url) /\ ~validateUrl(url).valid
           THEN Reject(s0, "start rejected", 0, "", validateUrl(url).error)
         ELSE startRun(st, url, file)

\* start({ url, file }) up to its first await
start(st, url, file) ==
  IF st.isRunning
    THEN Reject(st, "start rejected", 0, "", "Analysis already in progress")
    ELSE IF ~HasUrl(url) /\ ~IsFile(file)
      THEN Reject(st, "start rejected", 0, "",
                  "Either a company URL or document is required")
    ELSE IF HasUrl(url) /\ ~validateUrl(url).valid
      THEN Reject(st, "start rejected", 0, "", validateUrl(url).error)
    ELSE startRun(st, url, file)

\* an accepted start()
Start(input) ==
  LET st == Drain(start(Cur, input[1], input[2]))
  IN /\ st.started > started
     /\ st.started <= MaxStarts
     /\ Cardinality(ops) <= MaxStale
     /\ Install(st)

\* a start() that throws before it touches anything
StartRejected(input) ==
  LET st == Drain(start(Cur, input[1], input[2]))
  IN /\ st.started = started
     /\ Install(st)

\* ------------------------------------------------------------- retryPhase
\* retryPhase() without its check of the phase's status
retryPhase_AnyStatus(st, key) ==
  IF key \notin Keys
    THEN Reject(st, "retryPhase rejected", 0, key, "Unknown phase")
  ELSE
    LET s1 == IF st.abortController = "null"
                THEN [st EXCEPT !.abortController = "live", !.ops = Detach(@)]
                ELSE st
        s2 == [s1 EXCEPT !.status[key] = "pending",
                         !.error[key] = NoError,
                         !.promise[key] = NoOp,
                         !.retried = @ + 1]
    IN executePhase(s2, key)

\* retryPhase() returning the phase to pending without running it again
retryPhase_NoExecute(st, key) ==
  IF key \notin Keys
    THEN Reject(st, "retryPhase rejected", 0, key, "Unknown phase")
  ELSE IF st.status[key] # "error"
    THEN Reject(st, "retryPhase rejected", 0, key, "Phase is not in error state")
  ELSE
    LET s1 == IF st.abortController = "null"
                THEN [st EXCEPT !.abortController = "live", !.ops = Detach(@)]
                ELSE st
    IN emit([s1 EXCEPT !.status[key] = "pending",
                       !.error[key] = NoError,
                       !.promise[key] = NoOp,
                       !.retried = @ + 1],
            Event("phaseStart", key, "", {}, NoResults))

\* retryPhase() clearing the failure of every failed phase, not only of its own
retryPhase_ClearsAllFailures(st, key) ==
  IF key \notin Keys
    THEN Reject(st, "retryPhase rejected", 0, key, "Unknown phase")
  ELSE IF st.status[key] # "error"
    THEN Reject(st, "retryPhase rejected", 0, key, "Phase is not in error state")
  ELSE
    LET s1 == IF st.abortController = "null"
                THEN [st EXCEPT !.abortController = "live", !.ops = Detach(@)]
                ELSE st
        s2 == [s1 EXCEPT !.status = [k \in Keys |-> IF st.status[k] = "error"
                                                      THEN "pending" ELSE st.status[k]],
                         !.error = [k \in Keys |-> NoError],
                         !.promise[key] = NoOp,
                         !.retried = @ + 1]
    IN executePhase(s2, key)

retryPhase(st, key) ==
  IF key \notin Keys
    THEN Reject(st, "retryPhase rejected", 0, key, "Unknown phase")
  ELSE IF st.status[key] # "error"
    THEN Reject(st, "retryPhase rejected", 0, key, "Phase is not in error state")
  ELSE
    LET s1 == IF st.abortController = "null"
                THEN [st EXCEPT !.abortController = "live", !.ops = Detach(@)]
                ELSE st
        s2 == [s1 EXCEPT !.status[key] = "pending",
                         !.error[key] = NoError,
                         !.promise[key] = NoOp,
                         !.retried = @ + 1]
    IN executePhase(s2, key)

\* an accepted retryPhase()
RetryPhase(key) ==
  LET st == Drain(retryPhase(Cur, key))
  IN /\ st.retried > retried
     /\ st.retried <= MaxRetries
     /\ Install(st)

\* a retryPhase() that throws
RetryRejected(key) ==
  LET st == Drain(retryPhase(Cur, key))
  IN /\ st.retried = retried
     /\ Install(st)

\* ----------------------------------------------------------------- cancel
cancel(st) ==
  IF st.abortController # "null"
    THEN emit(abort(st),
              Event("cancelled",
                    IF Len(st.activePhases) > 0 THEN st.activePhases[1] ELSE "",
                    "", {}, NoResults))
    ELSE st

\* without an abort controller cancel() does nothing at all
Cancel ==
  /\ abortController # "null"
  /\ Install(Drain(cancel(Cur)))

\* ------------------------------------------------------------------ reset
reset(st) ==
  LET s1 == abort(st)
  IN ResetPhases([s1 EXCEPT !.runStart = NoTime,
                            !.abortController = "null",
                            !.ops = Detach(@),
                            !.companyUrl = "",
                            !.companyFile = "nofile",
                            !.companyDescription = NoData,
                            !.isRunning = FALSE,
                            !.activePhases = <<>>])

Reset ==
  /\ Install(Drain(reset(Cur)))

\* ------------------------------------------------- the remote call returns
\* a response (ok) or a failure: HTTP error, malformed or invalid payload, the
\* client's own timeout, or the abort of the call
CallReturns(o, ok) ==
  /\ o \in ops
  /\ o.call = "aborted" => ~ok
  /\ Install(Drain(runPhaseResume(Cur, o, ok)))

RetryKeys == Keys \cup {"unknown"}

Next ==
  \/ \E input \in Inputs : Start(input)
  \/ \E key \in Keys : RetryPhase(key)
  \/ Cancel
  \/ Reset
  \/ \E o \in ops, ok \in BOOLEAN : CallReturns(o, ok)

Spec == Init /\ [][Next]_vars

\* every remote call issued returns or fails: the clients bound their calls by
\* a timeout of their own (js/api/market.js 25-47)
\* (the step CallReturns(o, ok), its result computed once)
SomeCallReturns ==
  \E o \in ops, ok \in BOOLEAN :
    /\ o.call = "aborted" => ~ok
    /\ \E st \in {Drain(runPhaseResume(Cur, o, ok))} : Install(st)

\* the runs of the program when no remote call stays outstanding for ever;
\* retryPhase() is left out: it creates no start() invocation
NextLive ==
  \/ \E input \in Inputs : Start(input)
  \/ Cancel
  \/ Reset
  \/ \E o \in ops, ok \in BOOLEAN : CallReturns(o, ok)

SpecLive == Init /\ [][NextLive]_vars /\ WF_vars(SomeCallReturns)

\* the same program, the calls it rejects observed as steps of their own
NextCalls ==
  \/ Next /\ started' <= MaxStartsCalls
  \/ \E input \in Inputs : StartRejected(input)
  \/ \E key \in RetryKeys : RetryRejected(key)

SpecCalls == Init /\ [][NextCalls]_vars

\* the remote call returns a response and the host's phaseComplete callback throws
CallbackThrows(o) ==
  /\ o \in ops
  /\ o.call = "inflight"
  /\ Install(Drain(runPhaseCallbackThrows(Cur, o)))

\* the same program with event callbacks that may throw
NextCallbacks ==
  \/ Next /\ started' <= MaxStartsCalls
  \/ \E o \in ops : CallbackThrows(o)

SpecCallbacks == Init /\ [][NextCallbacks]_vars

\* =============================================================== StateManager
\* (js/core/state-manager.js).  ls is localStorage: the two items the store owns.
Storage == [state |-> stateSlot, cache |-> cacheSlot]

\* JSON.stringify on the way into storage, JSON.parse on the way out
Stringify(v) == [kind |-> "json", value |-> v]

Parses(item) == item.kind = "json"

\* obj[k] = v on a plain object
Put(f, k, v) == [x \in DOMAIN f \cup {k} |-> IF x = k THEN v ELSE f[x]]

\* 'x.y'.startsWith('2.')
IsSeries2(version) == version \in {"2.0", "2.1"}

clearState(ls) == [ls EXCEPT !.state = NoItem]

\* getState(): the parsed checkpoint or null (found = FALSE); a checkpoint of
\* another major version is removed on the way
getState(ls) ==
  IF ls.state.kind = "none"
    THEN [found |-> FALSE, state |-> createEmptyState(0), ls |-> ls]
  ELSE IF ~Parses(ls.state)
    THEN [found |-> FALSE, state |-> createEmptyState(0), ls |-> ls]
  ELSE IF ls.state.value.version # "" /\ ~IsSeries2(ls.state.value.version)
    THEN [found |-> FALSE, state |-> createEmptyState(0), ls |-> clearState(ls)]
  ELSE [found |-> TRUE, state |-> ls.state.value, ls |-> ls]

\* saveState(state): the storage accepts the write
saveState(ls, state) == [ls EXCEPT !.state = Stringify([state EXCEPT !.version = Version])]

\* checkpoint() that starts from an empty checkpoint every time
checkpoint_Fresh(ls, phaseKey, phaseData, t) ==
  saveState(ls, [createEmptyState(t) EXCEPT
                   !.completedPhases = Put(@, phaseKey, phaseData),
                   !.timestamp = t,
                   !.status = "in_progress"])

checkpoint(ls, phaseKey, phaseData, t) ==
  LET g == getState(ls)
      currentState == IF g.found THEN g.state ELSE createEmptyState(t)
  IN saveState(g.ls, [currentState EXCEPT
                        !.completedPhases = Put(@, phaseKey, phaseData),
                        !.timestamp = t,
                        !.status = "in_progress"])

\* hasIncompleteAnalysis() without the upper limit on the recorded phases
hasIncompleteAnalysis_NoUpperLimit(ls) ==
  LET g == getState(ls)
  IN /\ g.found
     /\ g.state.status = "in_progress"
     /\ Cardinality(DOMAIN g.state.completedPhases) > 0

hasIncompleteAnalysis(ls) ==
  LET g == getState(ls)
      completedCount == Cardinality(DOMAIN g.state.completedPhases)
  IN /\ g.found
     /\ g.state.status = "in_progress"
     /\ completedCount > 0
     /\ completedCount < 6

\* ------------------------------------------------ generateAssessmentKey
\* url.startsWith('http')
StartsWithHttp(url) ==
  url \in {"https://a.com", "https://www.a.com", "https://A.com/", "https://b.org",
           "https://httpbin.org", "httpbin.org"}

\* new URL(s).hostname; NoHost where the constructor throws (no scheme, or a
\* space in the host)
NoHost == ""

UrlHostname(s) ==
  CASE s \in {"https://a.com", "https://A.com/"} -> "a.com"
    [] s = "https://www.a.com"                   -> "www.a.com"
    [] s = "https://b.org"                       -> "b.org"
    [] s = "https://httpbin.org"                 -> "httpbin.org"
    [] s = "https://www.httpbin.org"             -> "www.httpbin.org"
    [] s = "https://Https://a.com"               -> "https"   \* host "Https", empty port
    [] OTHER                                     -> NoHost

\* host.replace('www.', '')
StripWww(host) ==
  CASE host = "www.a.com"       -> "a.com"
    [] host = "www.httpbin.org" -> "httpbin.org"
    [] OTHER                    -> host

\* s.toLowerCase().replace(/[^a-z0-9]/g, '')
LowerAlnum(s) ==
  CASE s = "Document Upload" -> "documentupload"
    [] s = "Admin Import"    -> "adminimport"
    [] s = "httpbin.org"     -> "httpbinorg"
    [] OTHER                 -> s

\* file name without its extension, lower case, other characters replaced by '-'
FileStem(fileName) ==
  CASE fileName = "deck.pdf"    -> "deck"
    [] fileName = "Deck v2.pdf" -> "deck-v2"
    [] fileName = "plan.pdf"    -> "plan"
    [] OTHER                    -> fileName

\* (advisorName || 'unknown').toLowerCase().replace(/[^a-z0-9]/g, '-')
AdvisorKey(advisorName) ==
  CASE advisorName \in {"", Null} -> "unknown"
    [] advisorName = "Ann"        -> "ann"
    [] advisorName = "ann"        -> "ann"
    [] advisorName = "Bo Li"      -> "bo-li"
    [] OTHER                      -> advisorName

\* `${identifier}_${advisor}`: the advisor part holds no '_', so the pair
\* determines the string and the string the pair
generateAssessmentKey(url, advisorName, fileName) ==
  LET parsed == UrlHostname(IF StartsWithHttp(url) THEN url ELSE "https://" \o url)
      identifier ==
        IF url \notin {"", Null}
          THEN IF parsed # NoHost THEN StripWww(parsed) ELSE LowerAlnum(url)
        ELSE IF fileName \notin {"", Null} THEN FileStem(fileName)
        ELSE ""
  IN <<identifier, AdvisorKey(advisorName)>>

setCompanyInput(ls, url, scaName, fileName, t) ==
  LET g == getState(ls)
      state == IF g.found THEN g.state ELSE createEmptyState(t)
  IN saveState(g.ls, [state EXCEPT
                        !.companyInput = [url |-> url, scaName |-> scaName,
                                          fileName |-> fileName],
                        !.scaName = scaName,
                        !.status = "in_progress",
                        !.timestamp = t,
                        !.assessmentKey = generateAssessmentKey(url, scaName, fileName)])

saveUserScore(ls, dimension, scoreData, t) ==
  LET g == getState(ls)
  IN IF ~g.found THEN g.ls
     ELSE saveState(g.ls, [g.state EXCEPT !.userScores = Put(@, dimension, scoreData),
                                          !.timestamp = t])

saveFinalRecommendation(ls, text, t) ==
  LET g == getState(ls)
  IN IF ~g.found THEN g.ls
     ELSE saveState(g.ls, [g.state EXCEPT !.finalRecommendation = text, !.timestamp = t])

saveCustomVentureName(ls, name, t) ==
  LET g == getState(ls)
  IN IF ~g.found THEN g.ls
     ELSE saveState(g.ls, [g.state EXCEPT
                             !.customVentureName = IF name = "" THEN Null ELSE name,
                             !.timestamp = t])

saveSmartsheetRowId(ls, rowId, t) ==
  LET g == getState(ls)
  IN IF ~g.found THEN g.ls
     ELSE saveState(g.ls, [g.state EXCEPT !.smartsheetRowId = rowId, !.timestamp = t])

markComplete(ls, t) ==
  LET g == getState(ls)
  IN IF ~g.found THEN g.ls
     ELSE saveState(g.ls, [g.state EXCEPT !.status = "complete", !.timestamp = t])

\* restoreFromState(): null (found = FALSE) or the three restored fields
restoreFromState(ls) ==
  LET g == getState(ls)
  IN [found |-> g.found,
      companyInput |-> g.state.companyInput,
      completedPhases |-> g.state.completedPhases,
      userScores |-> g.state.userScores]

\* ------------------------------------------------------------ the archive
\* The archive object is kept as the sequence of its properties in the order of
\* Object.keys (insertion order), which decides the ties of the eviction sort:
\* each property has a name and the entry stored under it.
EntryKeys(cache) == {cache[i].name : i \in 1..Len(cache)}

IndexOf(cache, key) == CHOOSE i \in 1..Len(cache) : cache[i].name = key

\* cache[key], for a key of the archive
EntryAt(cache, key) == cache[IndexOf(cache, key)].entry

\* cache[key] = entry that adds a property whether or not the key is there
PutEntry_Append(cache, key, entry) == Append(cache, [name |-> key, entry |-> entry])

\* cache[key] = entry
PutEntry(cache, key, entry) ==
  IF key \in EntryKeys(cache)
    THEN [cache EXCEPT ![IndexOf(cache, key)] = [name |-> key, entry |-> entry]]
    ELSE Append(cache, [name |-> key, entry |-> entry])

\* a delete that drops the first property of the object, whatever its key
DeleteEntry_First(cache, key) == Tail(cache)

\* delete cache[key]
DeleteEntry(cache, key) == SelectSeq(cache, LAMBDA e : e.name # key)

\* eviction of the first n keys in insertion order, without the sort
EvictOldest_Unsorted(cache, n) ==
  IF n <= 0 THEN cache ELSE SubSeq(cache, Min({n, Len(cache)}) + 1, Len(cache))

\* the first n keys of keys.sort(by timestamp): a stable sort
RECURSIVE EvictOldest(_, _)
EvictOldest(cache, n) ==
  IF n <= 0 \/ cache = <<>> THEN cache
  ELSE LET oldest == CHOOSE i \in 1..Len(cache) :
                       \A j \in 1..Len(cache) :
                         \/ cache[i].entry.timestamp < cache[j].entry.timestamp
                         \/ cache[i].entry.timestamp = cache[j].entry.timestamp /\ i <= j
       IN EvictOldest(DeleteEntry(cache, cache[oldest].name), n - 1)

\* getAssessmentCache(): unparseable content is removed
\* a read that answers unparseable content with localStorage.clear()
getAssessmentCache_ClearsAll(ls) ==
  IF ls.cache.kind = "none" THEN [cache |-> NoEntries, ls |-> ls]
  ELSE IF ~Parses(ls.cache)
    THEN [cache |-> NoEntries, ls |-> [state |-> NoItem, cache |-> NoCacheItem]]
  ELSE [cache |-> ls.cache.value, ls |-> ls]

getAssessmentCache(ls) ==
  IF ls.cache.kind = "none" THEN [cache |-> NoEntries, ls |-> ls]
  ELSE IF ~Parses(ls.cache)
    THEN [cache |-> NoEntries, ls |-> [ls EXCEPT !.cache = NoCacheItem]]
  ELSE [cache |-> ls.cache.value, ls |-> ls]

\* sort((a, b) => b.timestamp - a.timestamp): stable, most recent first
RECURSIVE SortRecentFirst(_)
SortRecentFirst(entries) ==
  IF entries = <<>> THEN <<>>
  ELSE LET first == CHOOSE i \in 1..Len(entries) :
                      \A j \in 1..Len(entries) :
                        \/ entries[i].timestamp > entries[j].timestamp
                        \/ entries[i].timestamp = entries[j].timestamp /\ i <= j
       IN <<entries[first]>> \o
          SortRecentFirst(SubSeq(entries, 1, first - 1) \o
                          SubSeq(entries, first + 1, Len(entries)))

\* listPastAssessments(): the summaries of the stored entries
listPastAssessments(ls) ==
  LET cache == getAssessmentCache(ls).cache
  IN SortRecentFirst([i \in 1..Len(cache) |->
                        [key |-> cache[i].entry.key,
                         ventureName |-> cache[i].entry.ventureName,
                         advisorName |-> cache[i].entry.advisorName,
                         timestamp |-> cache[i].entry.timestamp,
                         hasFullData |-> \E k \in Keys : cache[i].entry.aiData[k] # NoData,
                         companyUrl |-> cache[i].entry.companyInput.url,
                         smartsheetRowId |-> cache[i].entry.smartsheetRowId]])

\* saveAssessmentCache(cache): the storage accepts the write
saveAssessmentCache(ls, cache) == [ls EXCEPT !.cache = Stringify(cache)]

\* cacheFullAssessment(data) at time t
cacheFullAssessment(ls, snapshot, t) ==
  LET g == getState(ls)
  IN IF ~g.found \/ g.state.assessmentKey = NoKey THEN g.ls
     ELSE LET c == getAssessmentCache(g.ls)
              state == g.state
              cachedAssessment ==
                [key |-> state.assessmentKey,
                 timestamp |-> t,
                 companyInput |-> state.companyInput,
                 smartsheetRowId |-> state.smartsheetRowId,
                 userScores |-> state.userScores,
                 aiData |-> [k \in Keys |-> snapshot.aiData[k]],
                 ventureName |-> snapshot.ventureName,
                 advisorName |-> IF state.scaName \notin {"", Null} THEN state.scaName
                                 ELSE IF state.companyInput.scaName \notin {"", Null}
                                   THEN state.companyInput.scaName
                                 ELSE "Unknown"]
              cache == PutEntry(c.cache, state.assessmentKey, cachedAssessment)
          IN saveAssessmentCache(c.ls, EvictOldest(cache, Len(cache) - ArchiveLimit))

\* ------------------------------------------------------------ progress
\* (js/core/pipeline.js 482-549) Times are whole seconds: the clock of the
\* model is Date.now() / 1000.
\* a registry that estimates every phase like the gating phase
duration_Flat(k) == 150

duration(k) ==
  CASE k = "company" -> 150 [] k = "team" -> 70 [] k = "funding" -> 60
    [] k = "competitive" -> 160 [] k = "market" -> 250 [] k = "iprisk" -> 60

Max(S) == CHOOSE x \in S : \A y \in S : x >= y

Smaller(a, b) == IF a <= b THEN a ELSE b

Larger(a, b) == IF a >= b THEN a ELSE b

\* a time stamp that is neither null nor 0
Truthy(t) == t \notin {NoTime, 0}

Settled(st, k) == st.status[k] \in {"completed", "error"}

\* a progress without the cap at 95
getProgress_Uncapped(st) ==
  LET total == duration(GatingKey) + Max({duration(k) : k \in Cohort})
  IN [contribution |-> total, quarters |-> total, estimated |-> total,
      elapsed |-> 0, remaining |-> total]

\* getProgress(): quarters is the percentage in quarters of a percent,
\* (progressContribution / 400) * 100 * 4, exact for whole seconds
getProgress(st) ==
  LET companyDuration == duration(GatingKey)
      maxParallelDuration == Max({duration(k) : k \in Cohort})
      effectiveTotalDuration == companyDuration + maxParallelDuration
      elapsed == IF Truthy(st.runStart) THEN st.now - st.runStart ELSE 0
      gating ==
        IF st.status[GatingKey] = "completed" THEN companyDuration
        ELSE IF st.status[GatingKey] = "active" /\ Truthy(st.startTime[GatingKey])
          THEN Smaller(st.now - st.startTime[GatingKey], companyDuration)
        ELSE 0
      allParallelDone == \A k \in Cohort : Settled(st, k)
      parallelElapsed(k) ==
        IF st.status[k] = "active" /\ Truthy(st.startTime[k]) THEN st.now - st.startTime[k]
        ELSE IF Settled(st, k) THEN maxParallelDuration \div 2
        ELSE 0
      maxParallelElapsed == Max({0} \cup {parallelElapsed(k) : k \in Cohort})
      parallel ==
        IF st.status[GatingKey] # "completed" THEN 0
        ELSE IF allParallelDone THEN maxParallelDuration
        ELSE Smaller(maxParallelElapsed, maxParallelDuration)
      progressContribution == gating + parallel
      allCompleted == \A k \in Keys : Settled(st, k)
  IN [contribution |-> progressContribution,
      quarters |-> IF allCompleted THEN 400
                   ELSE Smaller(380, (progressContribution * 400) \div effectiveTotalDuration),
      estimated |-> effectiveTotalDuration,
      elapsed |-> elapsed,
      remaining |-> Larger(0, effectiveTotalDuration - elapsed)]

\* the host's timer reads the progress: the value returned is all it leaves
GetProgress ==
  /\ out' = <<[type |-> "progress", value |-> getProgress(Cur)]>>
  /\ UNCHANGED <<pipelineVars, now, storeVars, hostVars>>

\* Date.now() advances between two tasks of a run
Advance ==
  /\ runStart # NoTime
  /\ now < MaxTicks * ClockStep
  /\ now' = now + ClockStep
  /\ UNCHANGED <<pipelineVars, out, storeVars, hostVars>>

\* one run of the pipeline observed by the progress timer
NextProgress ==
  \/ \E input \in Inputs : started = 0 /\ Start(input)
  \/ \E key \in Keys : RetryPhase(key)
  \/ \E o \in ops, ok \in BOOLEAN : CallReturns(o, ok)
  \/ Advance
  \/ GetProgress

SpecProgress == Init /\ [][NextProgress]_vars

\* ------------------------------------------- storage that rejects writes
\* The answers of localStorage.setItem to the calls of one store operation:
\* first[i] to the i-th call, then to every later one (TRUE: stored, FALSE:
\* QuotaExceededError).  overflow: where the RangeError of an exhausted call
\* stack arises: outside every try block ("thrown"), inside the try of
\* getAssessmentCache ("caughtRead") or inside the try of saveAssessmentCache
\* ("caughtWrite").
Healthy == [first |-> <<>>, then |-> TRUE, overflow |-> "thrown"]

Accepts(q) == IF q.first # <<>> THEN Head(q.first) ELSE q.then

After(q) == IF q.first # <<>> THEN [q EXCEPT !.first = Tail(@)] ELSE q

\* a store operation in progress: the storage, the answers left, the setItem
\* calls made, the exception on its way to the caller
Begin(ls, q) == [ls |-> ls, q |-> q, writes |-> 0, threw |-> "none"]

\* localStorage.setItem(key, JSON.stringify(value))
SetItem(r, slot, value) ==
  [r EXCEPT !.ls = IF Accepts(r.q) THEN [@ EXCEPT ![slot] = Stringify(value)] ELSE @,
            !.q = After(@),
            !.writes = @ + 1]

\* saveState(state): a rejected write is logged and dropped
saveStateQ(r, state) == SetItem(r, "state", [state EXCEPT !.version = Version])

checkpointQ(r, phaseKey, phaseData, t) ==
  LET g == getState(r.ls)
      currentState == IF g.found THEN g.state ELSE createEmptyState(t)
  IN saveStateQ([r EXCEPT !.ls = g.ls],
                [currentState EXCEPT
                   !.completedPhases = Put(@, phaseKey, phaseData),
                   !.timestamp = t,
                   !.status = "in_progress"])

RECURSIVE saveAssessmentCacheQ(_, _, _)
RECURSIVE pruneAssessmentCacheQ(_, _)

\* saveAssessmentCache(cache) below d frames of pruneAssessmentCache: on
\* QuotaExceededError it prunes and writes the same cache once more
saveAssessmentCacheQ(r, cache, d) ==
  IF Accepts(r.q) THEN SetItem(r, "cache", cache)
  ELSE LET p == pruneAssessmentCacheQ(SetItem(r, "cache", cache), d + 1)
       IN IF p.threw # "none" THEN p ELSE SetItem(p, "cache", cache)

\* pruneAssessmentCache() as the d-th nested frame of itself: it reads the
\* stored archive again and saves what it kept through saveAssessmentCache
pruneAssessmentCacheQ(r, d) ==
  IF d > StackLimit
    THEN CASE r.q.overflow = "thrown" -> [r EXCEPT !.threw = "RangeError"]
           [] r.q.overflow = "caughtRead" -> [r EXCEPT !.ls.cache = NoCacheItem]
           [] OTHER -> r
  ELSE LET c == getAssessmentCache(r.ls)
           r1 == [r EXCEPT !.ls = c.ls]
       IN IF Len(c.cache) > PruneLimit
            THEN saveAssessmentCacheQ(r1, EvictOldest(c.cache, Len(c.cache) - PruneLimit), d)
            ELSE r1

\* a catch clause that passes the exception on
Caught_Rethrows(r) == r

\* try { ... } catch (error) { console.error(...) }
Caught(r) == [r EXCEPT !.threw = "none"]

\* the entry cacheFullAssessment(data) builds at time t
cachedAssessment(state, snapshot, t) ==
  [key |-> state.assessmentKey,
   timestamp |-> t,
   companyInput |-> state.companyInput,
   smartsheetRowId |-> state.smartsheetRowId,
   userScores |-> state.userScores,
   aiData |-> [k \in Keys |-> snapshot.aiData[k]],
   ventureName |-> snapshot.ventureName,
   advisorName |-> IF state.scaName \notin {"", Null} THEN state.scaName
                   ELSE IF state.companyInput.scaName \notin {"", Null}
                     THEN state.companyInput.scaName
                   ELSE "Unknown"]

\* cacheFullAssessment(data), its body inside try/catch
cacheFullAssessmentQ(r, snapshot, t) ==
  LET g == getState(r.ls)
      r0 == [r EXCEPT !.ls = g.ls]
  IN IF ~g.found \/ g.state.assessmentKey = NoKey THEN r0
     ELSE LET c == getAssessmentCache(r0.ls)
              cache == PutEntry(c.cache, g.state.assessmentKey,
                                cachedAssessment(g.state, snapshot, t))
              w == saveAssessmentCacheQ([r0 EXCEPT !.ls = c.ls],
                                        EvictOldest(cache, Len(cache) - ArchiveLimit), 0)
          IN Caught(w)

\* loadAssessment(key): cache[key] || null
loadAssessment(ls, key) ==
  LET c == getAssessmentCache(ls)
  IN [found |-> key \in EntryKeys(c.cache),
      entry |-> IF key \in EntryKeys(c.cache) THEN EntryAt(c.cache, key) ELSE NoData,
      ls |-> c.ls]

\* deleteAssessment(key)
deleteAssessmentQ(r, key) ==
  LET c == getAssessmentCache(r.ls)
      r1 == [r EXCEPT !.ls = c.ls]
  IN IF key \in EntryKeys(c.cache)
       THEN saveAssessmentCacheQ(r1, DeleteEntry(c.cache, key), 0)
       ELSE r1

\* migrateIfNeeded(), called by init()
migrateIfNeeded(ls) ==
  LET g == getState(ls)
  IN IF g.found /\ g.state.version = "2.0" THEN saveState(g.ls, g.state) ELSE g.ls

InstallRun(r) ==
  /\ stateSlot' = r.ls.state
  /\ cacheSlot' = r.ls.cache
  /\ storeOut' = [writes |-> r.writes, threw |-> r.threw]

\* ------------------------------------------- the store called on its own
InstallStore(ls) ==
  /\ stateSlot' = ls.state
  /\ cacheSlot' = ls.cache
  /\ storeOut' = storeOut

\* inputs of the store's operations
PhaseData == {<<"r1">>, <<"r2">>}

CompanyInputs == {<<"https://a.com", "Ann", Null>>, <<"https://www.a.com", "Ann", Null>>,
                  <<"https://a.com", "", Null>>, <<"Document Upload", "Ann", "deck.pdf">>}

Dimensions == {"team"}

ScoreData == {"s1", "s2"}

Snapshots ==
  {[aiData |-> [k \in Keys |-> NoData], ventureName |-> "Unknown"],
   [aiData |-> [k \in Keys |-> IF k = GatingKey THEN <<"r1">> ELSE NoData],
    ventureName |-> "A Corp"]}

Checkpoint(k, d) ==
  /\ InstallStore(checkpoint(Storage, k, d, now))
  /\ UNCHANGED <<pipelineVars, hostVars, now, out>>

SetCompanyInput(c) ==
  /\ InstallStore(setCompanyInput(Storage, c[1], c[2], c[3], now))
  /\ UNCHANGED <<pipelineVars, hostVars, now, out>>

SaveUserScore(dim, s) ==
  /\ InstallStore(saveUserScore(Storage, dim, s, now))
  /\ UNCHANGED <<pipelineVars, hostVars, now, out>>

MarkComplete ==
  /\ InstallStore(markComplete(Storage, now))
  /\ UNCHANGED <<pipelineVars, hostVars, now, out>>

ClearState ==
  /\ InstallStore(clearState(Storage))
  /\ UNCHANGED <<pipelineVars, hostVars, now, out>>

CacheFullAssessment(snapshot) ==
  /\ InstallStore(cacheFullAssessment(Storage, snapshot, now))
  /\ UNCHANGED <<pipelineVars, hostVars, now, out>>

\* Date.now() advances
Tick ==
  /\ now < MaxNow
  /\ now' = now + 1
  /\ UNCHANGED <<pipelineVars, storeVars, hostVars, out>>

\* the checkpoint slot under every order of the calls of its interface
NextStore ==
  \/ \E k \in Keys, d \in PhaseData : Checkpoint(k, d)
  \/ \E c \in CompanyInputs : SetCompanyInput(c)
  \/ \E dim \in Dimensions, s \in ScoreData : SaveUserScore(dim, s)
  \/ MarkComplete
  \/ ClearState
  \/ Tick

SpecStore == Init /\ [][NextStore]_vars

\* the archive under every order of the calls that feed it
NextArchive ==
  \/ \E c \in CompanyInputs : SetCompanyInput(c)
  \/ \E dim \in Dimensions, s \in ScoreData : SaveUserScore(dim, s)
  \/ \E snapshot \in Snapshots : CacheFullAssessment(snapshot)
  \/ ClearState
  \/ Tick

SpecArchive == Init /\ [][NextArchive]_vars

\* ------------------------------------------ the store under storage faults
\* what setItem answers during one operation
QuotaAnswers ==
  {Healthy,
   [first |-> <<FALSE>>, then |-> TRUE, overflow |-> "thrown"],
   [first |-> <<FALSE, TRUE>>, then |-> FALSE, overflow |-> "thrown"],
   [first |-> <<>>, then |-> FALSE, overflow |-> "thrown"],
   [first |-> <<>>, then |-> FALSE, overflow |-> "caughtRead"],
   [first |-> <<>>, then |-> FALSE, overflow |-> "caughtWrite"]}

FaultInputs == {<<"https://a.com", "Ann", Null>>, <<"https://b.org", "Ann", Null>>,
                <<"Document Upload", "Ann", "deck.pdf">>}

ArchiveKeys == {generateAssessmentKey(c[1], c[2], c[3]) : c \in FaultInputs}

\* what another program, an older release or a damaged disk leaves in the
\* checkpoint slot: states of other versions, a state without a version, text
\* that is not JSON
ForeignStates ==
  {[kind |-> "json", value |-> [createEmptyState(0) EXCEPT !.version = v]] :
      v \in {"1.0", "2.0", "3.0", ""}}
  \cup {[kind |-> "text", value |-> createEmptyState(0)]}

\* text in the archive slot that is not JSON
BrokenCache == [kind |-> "text", value |-> NoEntries]

SetInput(c) ==
  /\ InstallRun(Begin(setCompanyInput(Storage, c[1], c[2], c[3], now), Healthy))
  /\ UNCHANGED <<pipelineVars, hostVars, now, out>>

CheckpointQ(k, d, q) ==
  /\ InstallRun(checkpointQ(Begin(Storage, q), k, d, now))
  /\ UNCHANGED <<pipelineVars, hostVars, now, out>>

GetState ==
  /\ InstallRun(Begin(getState(Storage).ls, Healthy))
  /\ UNCHANGED <<pipelineVars, hostVars, now, out>>

\* init() of a page load
MigrateIfNeeded ==
  /\ InstallRun(Begin(migrateIfNeeded(Storage), Healthy))
  /\ UNCHANGED <<pipelineVars, hostVars, now, out>>

CacheFullAssessmentQ(snapshot, q) ==
  /\ InstallRun(cacheFullAssessmentQ(Begin(Storage, q), snapshot, now))
  /\ UNCHANGED <<pipelineVars, hostVars, now, out>>

DeleteAssessment(key, q) ==
  /\ InstallRun(deleteAssessmentQ(Begin(Storage, q), key))
  /\ UNCHANGED <<pipelineVars, hostVars, now, out>>

LoadAssessment(key) ==
  /\ InstallRun(Begin(loadAssessment(Storage, key).ls, Healthy))
  /\ UNCHANGED <<pipelineVars, hostVars, now, out>>

ListPastAssessments ==
  /\ InstallRun(Begin(getAssessmentCache(Storage).ls, Healthy))
  /\ UNCHANGED <<pipelineVars, hostVars, now, out>>

\* the checkpoint slot is overwritten from outside
ForeignState(item) ==
  /\ stateSlot' = item
  /\ UNCHANGED <<pipelineVars, cacheSlot, storeOut, hostVars, now, out>>

\* the archive slot is overwritten from outside
ForeignCache ==
  /\ cacheSlot' = BrokenCache
  /\ UNCHANGED <<pipelineVars, stateSlot, storeOut, hostVars, now, out>>

NextFaults ==
  \/ \E c \in FaultInputs : SetInput(c)
  \/ \E q \in QuotaAnswers : CheckpointQ(GatingKey, <<"r1">>, q)
  \/ GetState
  \/ MigrateIfNeeded
  \/ \E q \in QuotaAnswers : CacheFullAssessmentQ(CHOOSE x \in Snapshots : x.ventureName = "A Corp", q)
  \/ \E key \in ArchiveKeys, q \in QuotaAnswers : DeleteAssessment(key, q)
  \/ \E key \in ArchiveKeys : LoadAssessment(key)
  \/ ListPastAssessments
  \/ \E item \in ForeignStates : ForeignState(item)
  \/ ForeignCache
  \/ Tick

SpecFaults == Init /\ [][NextFaults]_vars

\* ======================================================================== App
\* (js/core/state-manager.js 500-): the host that owns the pipeline, the store
\* and the assessment view.  h is the host's side of the program: localStorage
\* (ls), assessmentView.data (view) and App.state (app).
Host == [ls |-> Storage, view |-> viewData, app |-> appState]

InstallHost(h) ==
  /\ InstallStore(h.ls)
  /\ viewData' = h.view
  /\ appState' = h.app
  /\ UNCHANGED serviceVars

NoView == [k \in Keys |-> NoData]

\* the venture name the host passes to the archive
VentureName(view) == IF view[GatingKey] # NoData THEN "A Corp" ELSE "Unknown"

\* cacheCurrentAssessmentProgressively()
cacheCurrentAssessmentProgressively(h, t) ==
  [h EXCEPT !.ls = cacheFullAssessment(@, [aiData |-> h.view,
                                           ventureName |-> VentureName(h.view)], t)]

\* loadPhaseData(phase, data)
loadPhaseData(h, phase, phaseData, t) ==
  cacheCurrentAssessmentProgressively([h EXCEPT !.view[phase] = phaseData], t)

\* handleAnalysisComplete(results)
handleAnalysisComplete(h, results, t) ==
  LET h1 == [h EXCEPT !.app = "results", !.ls = markComplete(@, t)]
  IN [h1 EXCEPT !.ls = cacheFullAssessment(@,
                         [aiData |-> [k \in Keys |-> results[k]],
                          ventureName |-> VentureName(results)], t)]

\* the callback registered for the event, run inside emit(); a rejection of
\* pipeline.start() is caught by startAnalysis()
onEvent(h, ev, t) ==
  CASE ev.type = "start" -> [h EXCEPT !.app = "analyzing"]
    [] ev.type = "phaseComplete" ->
         loadPhaseData([h EXCEPT !.ls = checkpoint(@, ev.phase, ev.results[ev.phase], t)],
                       ev.phase, ev.results[ev.phase], t)
    [] ev.type = "complete" -> handleAnalysisComplete(h, ev.results, t)
    [] ev.type = "partialComplete" ->
         cacheCurrentAssessmentProgressively([h EXCEPT !.app = "results"], t)
    [] ev.type = "cancelled" -> [h EXCEPT !.app = "idle"]
    [] ev.type \in {"error", "start rejected"} -> [h EXCEPT !.app = "error"]
    [] OTHER -> h

RECURSIVE onEvents(_, _, _)
onEvents(h, evs, t) ==
  IF evs = <<>> THEN h ELSE onEvents(onEvent(h, Head(evs), t), Tail(evs), t)

\* a task of the pipeline with the host's callbacks subscribed
InstallBoth(st, h) ==
  /\ InstallPipeline(st)
  /\ InstallHost(onEvents(h, st.out, st.now))

\* what startAnalysis() writes before it starts the pipeline
submitInput(h, validatedUrl, scaName, fileName, t) ==
  LET l1 == setCompanyInput(h.ls, IF validatedUrl = Null THEN "Document Upload"
                                  ELSE validatedUrl, scaName, fileName, t)
      l2 == saveSmartsheetRowId(l1, Null, t)
      l3 == saveCustomVentureName(l2, "", t)
      l4 == saveFinalRecommendation(l3, "", t)
  IN [h EXCEPT !.ls = l4, !.view = NoView]

\* the inputs startAnalysis() lets through
Submittable(input) ==
  /\ Trim(input[1]) # "" \/ IsFile(input[2])
  /\ Trim(input[1]) # "" => validateUrl(Trim(input[1])).valid

\* startAnalysis() with the form holding input and the advisor's name
StartAnalysis(input, scaName) ==
  /\ Submittable(input)
  /\ started < MaxStarts
  /\ Cardinality(ops) <= MaxStale
  /\ LET url == Trim(input[1])
         validatedUrl == IF url # "" THEN validateUrl(url).url ELSE Null
         h  == submitInput(Host, validatedUrl, scaName,
                           IF IsFile(input[2]) THEN input[2] ELSE Null, now)
         st == Drain(start(Cur, IF validatedUrl = Null THEN "" ELSE validatedUrl,
                           input[2]))
     IN InstallBoth(st, h)

\* a remote call returns
HostCallReturns(o, ok) ==
  /\ o \in ops
  /\ o.call = "aborted" => ~ok
  /\ InstallBoth(Drain(runPhaseResume(Cur, o, ok)), Host)

\* resetAnalysis(), confirmed where it asks
ResetAnalysis ==
  LET s1 == IF appState = "analyzing" THEN cancel(Cur) ELSE Cur
      h1 == onEvents(Host, s1.out, s1.now)
      st == Drain(reset(s1))
  IN /\ InstallPipeline(st)
     /\ InstallHost([h1 EXCEPT !.ls = clearState(@), !.app = "idle", !.view = NoView])

\* the operator scores a dimension
SubmitScore(dim, s) ==
  /\ InstallStore(saveUserScore(Storage, dim, s, now))
  /\ out' = <<>>
  /\ UNCHANGED <<pipelineVars, hostVars, now>>

\* cancelAnalysis(), confirmed
CancelAnalysis ==
  /\ appState = "analyzing"
  /\ abortController # "null"
  /\ InstallBoth(Drain(cancel(Cur)), Host)

ScaNames == {"Ann"}

\* ------------------------------------------------------ identity keys
\* what the form and the callers of setCompanyInput() pass
KeyUrls == {"https://A.com/", "a.com", "www.a.com", "https://www.a.com",
            "httpbin.org", "www.httpbin.org", "https://httpbin.org", Null}

KeyAdvisors == {"Ann", "ann"}

KeyFiles == {Null, "deck.pdf", "plan.pdf"}

\* a URL, or a file name where there is none
KeyInputs ==
  {c \in KeyUrls \X KeyAdvisors \X KeyFiles : (c[1] = Null) # (c[3] = Null)}

\* startAnalysis() for a document without a URL, up to the start of the
\* pipeline: setCompanyInput('Document Upload', scaName, file.name), ...
SubmitDocument(fileName, scaName) ==
  /\ InstallHost(submitInput(Host, Null, scaName, fileName, now))
  /\ UNCHANGED <<pipelineVars, now, out>>

NextKeys ==
  \/ \E c \in KeyInputs : SetCompanyInput(c)
  \/ \E fileName \in KeyFiles \ {Null}, scaName \in KeyAdvisors :
       SubmitDocument(fileName, scaName)
  \/ CacheFullAssessment(CHOOSE x \in Snapshots : x.ventureName = "A Corp")

SpecKeys == Init /\ [][NextKeys]_vars

\* ------------------------------------------- the host under storage faults
\* x is the host during one task: the store operation record (r), the view
\* and App.state
HostRun(h, q) == [r |-> Begin(h.ls, q), view |-> h.view, app |-> h.app]

InstallHostRun(x) ==
  /\ InstallRun(x.r)
  /\ viewData' = x.view
  /\ appState' = x.app
  /\ UNCHANGED serviceVars

markCompleteQ(r, t) ==
  LET g == getState(r.ls)
      r1 == [r EXCEPT !.ls = g.ls]
  IN IF ~g.found THEN r1
     ELSE saveStateQ(r1, [g.state EXCEPT !.status = "complete", !.timestamp = t])

cacheCurrentAssessmentProgressivelyQ(x, t) ==
  [x EXCEPT !.r = Caught(cacheFullAssessmentQ(@, [aiData |-> x.view,
                                                  ventureName |-> VentureName(x.view)], t))]

\* the phaseComplete callback: checkpoint(), loadPhaseData()
onPhaseCompleteQ(x, ev, t) ==
  LET r1 == checkpointQ(x.r, ev.phase, ev.results[ev.phase], t)
  IN IF r1.threw # "none" THEN [x EXCEPT !.r = r1]
     ELSE cacheCurrentAssessmentProgressivelyQ(
            [x EXCEPT !.r = r1, !.view[ev.phase] = ev.results[ev.phase]], t)

handleAnalysisCompleteQ(x, results, t) ==
  [x EXCEPT !.app = "results",
            !.r = Caught(cacheFullAssessmentQ(markCompleteQ(@, t),
                           [aiData |-> [k \in Keys |-> results[k]],
                            ventureName |-> VentureName(results)], t))]

onEventQ(x, ev, t) ==
  CASE ev.type = "start" -> [x EXCEPT !.app = "analyzing"]
    [] ev.type = "phaseComplete" -> onPhaseCompleteQ(x, ev, t)
    [] ev.type = "complete" -> handleAnalysisCompleteQ(x, ev.results, t)
    [] ev.type = "partialComplete" ->
         cacheCurrentAssessmentProgressivelyQ([x EXCEPT !.app = "results"], t)
    [] ev.type = "cancelled" -> [x EXCEPT !.app = "idle"]
    [] ev.type \in {"error", "start rejected"} -> [x EXCEPT !.app = "error"]
    [] OTHER -> x

RECURSIVE onEventsQ(_, _, _)
onEventsQ(x, evs, t) ==
  IF evs = <<>> THEN x ELSE onEventsQ(onEventQ(x, Head(evs), t), Tail(evs), t)

\* a remote call returns while localStorage answers q: an exception of the
\* phaseComplete callback comes out of emit() inside runPhase's try block
HostCallReturnsQ(o, ok, q) ==
  /\ o \in ops
  /\ o.call = "aborted" => ~ok
  /\ LET resumed == runPhaseResume(Cur, o, ok)
         x1 == IF ok THEN onEventQ(HostRun(Host, q), Head(resumed.out), now)
               ELSE HostRun(Host, q)
         st == Drain(IF ok /\ x1.r.threw # "none" THEN runPhaseCallbackThrows(Cur, o)
                     ELSE resumed)
         x2 == onEventsQ([x1 EXCEPT !.r.threw = "none"],
                         IF ok THEN Tail(st.out) ELSE st.out, now)
     IN /\ InstallPipeline(st)
        /\ InstallHostRun(x2)

\* what setItem answers during one task of the host
HostAnswers == {q \in QuotaAnswers : q.overflow = "thrown" /\ Len(q.first) <= 1}

\* one run of the host while storage rejects writes and its items are damaged
NextHostFaults ==
  \/ \E input \in Inputs, scaName \in ScaNames :
       started = 0 /\ StartAnalysis(input, scaName)
  \/ \E o \in ops, ok \in BOOLEAN, q \in HostAnswers : HostCallReturnsQ(o, ok, q)
  \/ \E item \in ForeignStates : item.kind = "text" /\ ForeignState(item)
  \/ ForeignCache

SpecHostFaults == Init /\ [][NextHostFaults]_vars

\* ------------------------------------------------------- Load Previous
\* restoreFromCachedAssessment(assessment) after its pipeline.reset(): the row
\* id goes to the checkpoint, the company data to the view, every dimension
\* the assessment holds through loadPhaseData()
RECURSIVE restoreDimensions(_, _, _, _)
restoreDimensions(h, assessment, dims, t) ==
  IF dims = <<>> THEN h
  ELSE LET dim == Head(dims)
           h1 == IF assessment.aiData[dim] # NoData
                   THEN loadPhaseData(h, dim, assessment.aiData[dim], t)
                   ELSE h
       IN restoreDimensions(h1, assessment, Tail(dims), t)

restoreFromCachedAssessment(h, assessment, t) ==
  LET h1 == IF assessment.smartsheetRowId \notin {"", Null}
              THEN [h EXCEPT !.ls = saveSmartsheetRowId(@, assessment.smartsheetRowId, t)]
              ELSE h
      h2 == IF assessment.aiData[GatingKey] # NoData
              THEN [h1 EXCEPT !.view[GatingKey] = assessment.aiData[GatingKey]]
              ELSE h1
      h3 == restoreDimensions(h2, assessment, CohortKeys, t)
  IN [h3 EXCEPT !.app = "results"]

\* loadPreviousAssessment() from the input section: the operator picks the
\* entry `key` of the list; an entry without any phase result takes the
\* scores-only path instead
LoadPrevious(key) ==
  LET la == loadAssessment(Storage, key)
  IN /\ appState = "idle"
     /\ \E i \in 1..Len(listPastAssessments(Storage)) :
          listPastAssessments(Storage)[i].key = key
     /\ la.found
     /\ \E k \in Keys : la.entry.aiData[k] # NoData
     /\ InstallPipeline(Drain(reset(Cur)))
     /\ InstallHost(restoreFromCachedAssessment([Host EXCEPT !.ls = la.ls], la.entry, now))

\* a URL and a document: two assessments of one advisor
RestoreInputs == {<<"https://a.com", "Ann", Null>>, <<Null, "Ann", "deck.pdf">>}

RestoreKeys ==
  {generateAssessmentKey("https://a.com", "Ann", Null),
   generateAssessmentKey("Document Upload", "Ann", "deck.pdf")}

RestorePhases == {GatingKey, "team"}

\* startAnalysis() up to the start of the pipeline
SubmitInput(c) ==
  /\ InstallHost(submitInput(Host, c[1], c[2], c[3], now))
  /\ UNCHANGED <<pipelineVars, now, out>>

\* the phaseComplete callback for a result of the run that was started: the
\* gating phase comes first
PhaseCompleted(k, d) ==
  /\ getState(Storage).found
  /\ k # GatingKey => viewData[GatingKey] # NoData
  /\ InstallHost(onEvent(Host, Event("phaseComplete", k, "", {}, [x \in {k} |-> d]), now))
  /\ UNCHANGED <<pipelineVars, now, out>>

\* the host's writes of two assessments and its Load Previous button, the
\* results of the runs arriving in any order
NextRestore ==
  \/ \E c \in RestoreInputs : SubmitInput(c)
  \/ \E k \in RestorePhases, d \in PhaseData : PhaseCompleted(k, d)
  \/ \E key \in RestoreKeys : LoadPrevious(key)

SpecRestore == Init /\ [][NextRestore]_vars

\* ================================================================= StackProxy
\* (js/api/iprisk.js 349-445)  px is the object: config, configPromise
\* ("null", "pending" or "rejected"), the config fetches in flight (fetching),
\* those issued so far (fetched) and the calls of init() so far (inits)

\* fetchConfig(): one JSONP request for the configuration
fetchConfig(px) == [px EXCEPT !.fetching = @ + 1, !.fetched = @ + 1]

\* an init() that fetches whenever no config is loaded
init_Unshared(px) ==
  IF px.config # "null" THEN px
  ELSE fetchConfig([px EXCEPT !.configPromise = "pending"])

\* init() up to its await
init(px) ==
  IF px.config # "null" THEN px
  ELSE IF px.configPromise # "null" THEN px
  ELSE fetchConfig([px EXCEPT !.configPromise = "pending"])

\* StackProxy.init(), called at load time and by every StackProxy.call()
ProxyInit ==
  /\ proxy.inits < MaxInits
  /\ proxy' = [init(proxy) EXCEPT !.inits = @ + 1]
  /\ UNCHANGED <<pipelineVars, now, out, storeVars, viewData, appState, sheet>>

\* the JSONP callback delivers a valid config: the promise resolves and the
\* init() that awaits it stores the config and drops the promise
ConfigArrives ==
  /\ proxy.fetching > 0
  /\ proxy' = [proxy EXCEPT !.fetching = @ - 1, !.config = "config",
                             !.configPromise = "null"]
  /\ UNCHANGED <<pipelineVars, now, out, storeVars, viewData, appState, sheet>>

\* script error, timeout or an invalid response: the promise rejects, the
\* await in init() throws and configPromise is left as it is
ConfigFails ==
  /\ proxy.fetching > 0
  /\ proxy' = [proxy EXCEPT !.fetching = @ - 1,
                             !.configPromise = IF proxy.fetching = 1 THEN "rejected" ELSE @]
  /\ UNCHANGED <<pipelineVars, now, out, storeVars, viewData, appState, sheet>>

\* ====================================================== SmartsheetIntegration
\* (js/utils/smartsheet.js)  sh is the object's state: isSubmitting,
\* currentRowId, the submissions in flight (each the request it has sent:
\* its action and whether it is the JSONP request or the image beacon), the
\* rows the sheet holds for the assessment (rows) and the calls so far
\* (submitted)

\* getCurrentRowId(): the object's own row id, else the checkpoint's
getCurrentRowId(sh, ls) ==
  IF sh.currentRowId \notin {"", Null} THEN sh.currentRowId
  ELSE IF getState(ls).found THEN getState(ls).state.smartsheetRowId
  ELSE Null

\* a submission that does not look at isSubmitting
submitScore_Unguarded(sh, ls, kind) ==
  LET rowId == getCurrentRowId(sh, ls)
      isUpdate == rowId \notin {"", Null}
  IN [sh EXCEPT !.isSubmitting = TRUE,
                !.submitted = @ + 1,
                !.inflight = @ \cup {[n |-> sh.submitted + 1, kind |-> kind,
                                       action |-> IF isUpdate THEN "update" ELSE "create",
                                       stage |-> "jsonp"]}]

\* submitScore() / submitAllScores() up to the await of submitViaIframe()
submitScore(sh, ls, kind) ==
  IF sh.isSubmitting THEN [sh EXCEPT !.submitted = @ + 1]
  ELSE LET rowId == getCurrentRowId(sh, ls)
           isUpdate == rowId \notin {"", Null}
       IN [sh EXCEPT !.isSubmitting = TRUE,
                     !.submitted = @ + 1,
                     !.inflight = @ \cup {[n |-> sh.submitted + 1, kind |-> kind,
                                            action |-> IF isUpdate THEN "update" ELSE "create",
                                            stage |-> "jsonp"]}]

\* the advisor submits one score (kind "score") or all of them (kind "all")
Submit(kind) ==
  /\ sheet.submitted < MaxSubmits
  /\ sheet' = submitScore(sheet, Storage, kind)
  /\ out' = IF sheet.isSubmitting
              THEN <<[type |-> "submit returned", success |-> FALSE,
                      msg |-> "Please wait for current submission to complete"]>>
              ELSE <<>>
  /\ UNCHANGED <<pipelineVars, now, storeVars, viewData, appState, proxy>>

\* the sheet after the proxy has carried out request q
Served(sh, q) == IF q.action = "create" THEN [sh EXCEPT !.rows = @ + 1] ELSE sh

\* the code after the await: the row id of a new row is kept, and the finally
\* clears isSubmitting
Settled_(sh, q, success, rowId) ==
  [sh EXCEPT !.inflight = @ \ {q},
             !.isSubmitting = FALSE,
             !.currentRowId = IF success /\ rowId # Null /\ q.action = "create"
                                THEN rowId ELSE @]

\* the JSONP callback delivers the proxy's answer: the request was carried
\* out (success, with the row's id) or refused
Responds(q, success) ==
  /\ q \in sheet.inflight
  /\ q.stage = "jsonp"
  /\ LET sh == IF success THEN Served(sheet, q) ELSE sheet
         rowId == IF success THEN "row" ELSE Null
     IN /\ sheet' = Settled_(sh, q, success, rowId)
        /\ InstallStore(IF success /\ q.action = "create"
                          THEN saveSmartsheetRowId(Storage, rowId, now)
                          ELSE Storage)
  /\ out' = <<[type |-> "submit returned", success |-> success, msg |-> ""]>>
  /\ UNCHANGED <<pipelineVars, now, viewData, appState, proxy>>

\* script error or the 15 s timeout: the same data goes out again as an image
\* beacon; the first request has been carried out (a slow answer) or not
FallsBack(q, served) ==
  /\ q \in sheet.inflight
  /\ q.stage = "jsonp"
  /\ LET sh == IF served THEN Served(sheet, q) ELSE sheet
     IN sheet' = [sh EXCEPT !.inflight = (@ \ {q}) \cup {[q EXCEPT !.stage = "beacon"]}]
  /\ UNCHANGED <<pipelineVars, now, out, storeVars, viewData, appState, proxy>>

\* the beacon loads, fails to load or its 2 s timer fires: the submission
\* resolves with success and without a row id
BeaconSettles(q, served) ==
  /\ q \in sheet.inflight
  /\ q.stage = "beacon"
  /\ sheet' = Settled_(IF served THEN Served(sheet, q) ELSE sheet, q, TRUE, Null)
  /\ out' = <<[type |-> "submit returned", success |-> TRUE, msg |-> "Submitted"]>>
  /\ UNCHANGED <<pipelineVars, now, storeVars, viewData, appState, proxy>>

\* the two service objects of the page on their own
NextServices ==
  \/ ProxyInit
  \/ ConfigArrives
  \/ ConfigFails
  \/ \E kind \in {"score", "all"} : Submit(kind)
  \/ \E q \in sheet.inflight, success \in BOOLEAN : Responds(q, success)
  \/ \E q \in sheet.inflight, served \in BOOLEAN : FallsBack(q, served)
  \/ \E q \in sheet.inflight, served \in BOOLEAN : BeaconSettles(q, served)

SpecServices == Init /\ [][NextServices]_vars

NextHost ==
  \/ \E input \in Inputs, scaName \in ScaNames : StartAnalysis(input, scaName)
  \/ \E o \in ops, ok \in BOOLEAN : HostCallReturns(o, ok)
  \/ ResetAnalysis
  \/ \E dim \in Dimensions : SubmitScore(dim, "s1")
  \/ CancelAnalysis

SpecHost == Init /\ [][NextHost]_vars

\* ================================================================ properties
Terminal == {"completed", "error"}

Emitted(type) == \E i \in 1..Len(out) : out[i].type = type

CallsFor(S, k) == {o \in S : o.key = k /\ o.call = "inflight"}

\* C1: no cohort phase (team, funding, competitive, market, iprisk) has left
\* pending unless the gating phase company has reached completed.
C1_CohortWaitsForGating ==
  \A k \in Cohort : status[k] # "pending" => status[GatingKey] = "completed"

\* C2: when start() emits error for a failed gating call it also rejects, the
\* gating phase is in error, all five cohort phases are still pending and no
\* remote call was issued for any of them in that run.
C2_GatingFailureStopsRun ==
  \A i \in 1..Len(out) :
    out[i].type = "error" =>
      /\ \E j \in 1..Len(out) : out[j].type = "start rejected" /\ out[j].run = out[i].run
      /\ status[GatingKey] = "error"
      /\ \A k \in Cohort : status[k] = "pending"
      /\ \A o \in ops : o.key \in Cohort => o.run # out[i].run

\* C3: in a run whose gating phase completed, complete or partialComplete is
\* emitted if and only if all five cohort phases have reached completed or
\* error: never while one of them is pending or active, and in the very step
\* in which the last of them settles.
C3_TerminalIffCohortSettled ==
  [][/\ (Emitted("complete")' \/ Emitted("partialComplete")')
          => \A k \in Cohort : status'[k] \in Terminal
     /\ (/\ isRunning
         /\ status[GatingKey] = "completed"
         /\ \E k \in Cohort : status[k] = "active" /\ status'[k] \in Terminal
         /\ \A k \in Cohort : status'[k] \in Terminal)
          => (Emitted("complete")' \/ Emitted("partialComplete")')]_vars

\* C4: complete is emitted only with all six phases completed; partialComplete
\* carries as failedPhases exactly the non-empty set of phases in error, and
\* its results hold the data of every completed phase.
C4_OutcomeClassification ==
  \A i \in 1..Len(out) :
    /\ out[i].type = "complete" => \A k \in Keys : status[k] = "completed"
    /\ out[i].type = "partialComplete" =>
         /\ out[i].failed = {k \in Keys : status[k] = "error"}
         /\ out[i].failed # {}
         /\ \A k \in Keys : status[k] = "completed" =>
              out[i].results[k] = data[k] /\ data[k] # NoData

\* C5: executePhase(key) on an active phase returns the operation in flight and
\* issues no remote call, and no phase key has two remote calls outstanding.
C5_SingleCallPerPhase ==
  \A k \in Keys :
    /\ Cardinality(CallsFor(ops, k)) <= 1
    /\ status[k] = "active" =>
         /\ promise[k] # NoOp
         /\ executePhase(Cur, k).ops = ops
         /\ executePhase(Cur, k).promise[k] = promise[k]

\* the calls issued by a step: those of ops' that were not outstanding before it
NewCalls == {o \in ops' : \A p \in ops : OpId(p) # OpId(o)}

OthersUnchanged(x) ==
  \A k \in Keys \ {x} :
    /\ status'[k] = status[k]
    /\ startTime'[k] = startTime[k]
    /\ endTime'[k] = endTime[k]
    /\ data'[k] = data[k]
    /\ error'[k] = error[k]

\* the step is an accepted retryPhase(x)
RetryAccepted(x) ==
  /\ retried' = retried + 1
  /\ out'[1].type = "phaseStart"
  /\ out'[1].phase = x

PipelineUnchanged ==
  UNCHANGED <<status, data, error, startTime, endTime, promise, runStart,
              abortController, companyUrl, companyFile, companyDescription,
              isRunning, activePhases, ops, frames, started, retried, now>>

\* C7: retryPhase(key) on a phase that is not in error (pending, active or
\* completed), or on an unknown key, throws, issues no remote call and changes
\* no phase's status, timestamps, result or failure.
C7_RetryRejectionChangesNothing ==
  [][\A key \in RetryKeys :
       ((RetryPhase(key) \/ RetryRejected(key))
          /\ (key \notin Keys \/ status[key] # "error")) =>
         /\ Len(out') = 1
         /\ out'[1].type = "retryPhase rejected"
         /\ out'[1].phase = key
         /\ NewCalls = {}
         /\ PipelineUnchanged]_vars

\* retryPhase() was rejected for an active phase of a run with a completed phase
C7_Witness ==
  /\ Len(out) = 1
  /\ out[1].type = "retryPhase rejected"
  /\ out[1].phase = "team"
  /\ status["team"] = "active"
  /\ status[GatingKey] = "completed"

\* C8: start() is accepted only while no phase is active with a remote call
\* outstanding, whether start() or retryPhase() activated that phase.
C8_NoStartWhileActive ==
  [][started' # started =>
       \A k \in Keys : ~(status[k] = "active" /\ CallsFor(ops, k) # {})]_vars

\* start() was given neither a URL nor a document, or a URL the validator rejects
InvalidInput(input) ==
  \/ ~HasUrl(input[1]) /\ ~IsFile(input[2])
  \/ HasUrl(input[1]) /\ ~validateUrl(input[1]).valid

\* C9: start() with neither a URL nor a document, or with a URL the validator
\* rejects, throws before any remote call and before any state is touched:
\* phases, stored input, isRunning and the results of a previous run are
\* unchanged and no lifecycle event is emitted.
C9_InvalidInputChangesNothing ==
  [][\A input \in Inputs :
       ((Start(input) \/ StartRejected(input)) /\ InvalidInput(input)) =>
         /\ Len(out') = 1
         /\ out'[1].type = "start rejected"
         /\ NewCalls = {}
         /\ PipelineUnchanged]_vars

\* start() was rejected for its URL while the results of a finished run are held
C9_Witness ==
  /\ Len(out) = 1
  /\ out[1].type = "start rejected"
  /\ out[1].msg = "Invalid domain name"
  /\ ~isRunning
  /\ status[GatingKey] = "completed"
  /\ data[GatingKey] # NoData
  /\ companyUrl = "https://a.com"

\* C10: cancel() aborts the remote call of every phase that is active, whether
\* start() or retryPhase() activated it, and leaves status and result of every
\* completed phase as they are.
C10_CancelAbortsActive ==
  \A k \in Keys :
    /\ status[k] = "active" =>
         \A o \in cancel(Cur).ops : OpId(o) = <<k, promise[k]>> => o.call = "aborted"
    /\ status[k] = "completed" =>
         cancel(Cur).status[k] = "completed" /\ cancel(Cur).data[k] = data[k]

\* the outcome events start() reports for a run
Outcomes == {"complete", "partialComplete", "error"}

\* C11: once cancel() has been called on a run in flight, no complete,
\* partialComplete or error outcome is reported for that run: cancelled is its
\* terminal outcome.
C11_CancelledIsTerminal ==
  [][(isRunning /\ abortController = "aborted") =>
       \A i \in 1..Len(out') :
         out'[i].type \in Outcomes => out'[i].run # started]_vars

\* C12: each time the gating phase is announced completed, overviewReady
\* follows at once, then the phaseStart of team, funding, competitive, market
\* and iprisk in this order, and all five are active with their calls issued.
C12_OverviewThenCohort ==
  \A i \in 1..Len(out) :
    (out[i].type = "phaseComplete" /\ out[i].phase = GatingKey) =>
      /\ Len(out) >= i + 1 + Len(CohortKeys)
      /\ out[i + 1].type = "overviewReady"
      /\ \A j \in 1..Len(CohortKeys) :
           /\ out[i + 1 + j].type = "phaseStart"
           /\ out[i + 1 + j].phase = CohortKeys[j]
      /\ \A k \in Cohort : status[k] = "active" /\ CallsFor(ops, k) # {}

PhaseEventTypes == {"phaseStart", "phaseComplete", "phaseError"}

\* the last phase event of phase k among the events o, "none" without one
LastPhaseEvent(o, k) ==
  LET at == {i \in 1..Len(o) : o[i].type \in PhaseEventTypes /\ o[i].phase = k}
  IN IF at = {} THEN "none"
     ELSE o[CHOOSE i \in at : \A j \in at : j <= i].type

\* C13: every change of a phase's status to active, completed or error is
\* announced in the same task by phaseStart, phaseComplete, phaseError in
\* transition order, and a phaseStart of a phase is emitted only when every
\* earlier phaseStart of that phase has had its phaseComplete or phaseError.
C13_OneEventPerTransition ==
  [][\A k \in Keys :
       /\ CASE LastPhaseEvent(out', k) = "phaseStart" -> status'[k] = "active"
            [] LastPhaseEvent(out', k) = "phaseComplete" -> status'[k] = "completed"
            [] LastPhaseEvent(out', k) = "phaseError" -> status'[k] = "error"
            [] OTHER -> status'[k] \in {status[k], "pending"}
       /\ (\E i \in 1..Len(out') : out'[i].type = "phaseStart" /\ out'[i].phase = k)
            => \A o \in ops : o.key # k]_vars

\* a run was started and reset() has not been called since
RunStarted == runStart # NoTime

PhasesReset == started' # started \/ Reset

PhaseStarted(k) == \E i \in 1..Len(out') : out'[i].type = "phaseStart" /\ out'[i].phase = k

\* C15: outside start() and reset() a phase's status moves only along
\* pending->active, active->completed, active->error and, through retryPhase,
\* error->pending->active; a completed phase stays completed with its result,
\* and a phase announced completed is completed when the task ends, whatever
\* the event callbacks do.
C15_StatusTransitions ==
  [][\A k \in Keys :
       /\ ~PhasesReset =>
            \/ status'[k] = status[k]
            \/ status[k] = "pending" /\ status'[k] = "active"
            \/ status[k] = "pending" /\ status'[k] = "error" /\ PhaseStarted(k)
            \/ status[k] = "active" /\ status'[k] \in {"completed", "error"}
            \/ status[k] = "error" /\ status'[k] = "active" /\ PhaseStarted(k)
       /\ (~PhasesReset /\ status[k] = "completed") =>
            status'[k] = "completed" /\ data'[k] = data[k]
       /\ (\E i \in 1..Len(out') : out'[i].type = "phaseComplete" /\ out'[i].phase = k)
            => status'[k] = "completed" /\ data'[k] # NoData]_vars

\* ------------------------------------------------------------ the store
StorageNext == [state |-> stateSlot', cache |-> cacheSlot']

\* the checkpoint as the next read finds it: createEmptyState() stands for none
Checkpointed(ls) == getState(ls).state

\* C16: checkpoint(k, d) records d under phase key k (last write wins), sets the
\* status to in_progress and the timestamp to the time of the call, and leaves
\* every other phase's recorded data, the company input, the operator scores,
\* the assessment key and the archive as they were.
C16_CheckpointFrame ==
  [][\A k \in Keys, d \in PhaseData :
       Checkpoint(k, d) =>
         LET before == Checkpointed(Storage)
             after  == Checkpointed(StorageNext)
         IN /\ getState(StorageNext).found
            /\ k \in DOMAIN after.completedPhases
            /\ after.completedPhases[k] = d
            /\ after.status = "in_progress"
            /\ after.timestamp = now
            /\ DOMAIN after.completedPhases = DOMAIN before.completedPhases \cup {k}
            /\ \A j \in DOMAIN before.completedPhases \ {k} :
                 after.completedPhases[j] = before.completedPhases[j]
            /\ after.companyInput = before.companyInput
            /\ after.userScores = before.userScores
            /\ after.assessmentKey = before.assessmentKey
            /\ cacheSlot' = cacheSlot]_vars

\* a checkpoint with an input, a score and two phases, one of them rewritten
C16_Witness ==
  /\ getState(Storage).found
  /\ Checkpointed(Storage).assessmentKey # NoKey
  /\ DOMAIN Checkpointed(Storage).userScores # {}
  /\ DOMAIN Checkpointed(Storage).completedPhases = {"company", "team"}
  /\ Checkpointed(Storage).completedPhases["company"] = <<"r2">>
  /\ Checkpointed(Storage).timestamp = MaxNow
  /\ Checkpointed(Storage).status = "in_progress"

\* what the storage holds under the checkpoint key, read without the store
CheckpointExists(ls) ==
  /\ ls.state.kind = "json"
  /\ ls.state.value.version = "" \/ IsSeries2(ls.state.value.version)

RecordedPhases(ls) == Cardinality(DOMAIN ls.state.value.completedPhases)

Resumable(ls) ==
  /\ CheckpointExists(ls)
  /\ ls.state.value.status = "in_progress"
  /\ RecordedPhases(ls) \in 1..5

\* C17: hasIncompleteAnalysis() is true iff a checkpoint exists, its status is
\* in_progress and between 1 and 5 phases are recorded in it; it is false with
\* 0 or 6 recorded phases, without a checkpoint, after markComplete() and after
\* clearState().
C17_HasIncompleteRun ==
  [][/\ hasIncompleteAnalysis(Storage) <=> Resumable(Storage)
     /\ hasIncompleteAnalysis(StorageNext) <=> Resumable(StorageNext)
     /\ (CheckpointExists(StorageNext) /\ RecordedPhases(StorageNext) \in {0, 6})
          => ~hasIncompleteAnalysis(StorageNext)
     /\ ~CheckpointExists(StorageNext) => ~hasIncompleteAnalysis(StorageNext)
     /\ MarkComplete => ~hasIncompleteAnalysis(StorageNext)
     /\ ClearState => ~hasIncompleteAnalysis(StorageNext)]_vars

\* five phases recorded and the run resumable; all six recorded and it is not
C17_Witness ==
  /\ CheckpointExists(Storage)
  /\ Checkpointed(Storage).status = "in_progress"
  /\ RecordedPhases(Storage) = 5
  /\ hasIncompleteAnalysis(Storage)
  /\ ~hasIncompleteAnalysis(checkpoint(Storage, "iprisk", <<"r1">>, now))
  /\ "iprisk" \notin DOMAIN Checkpointed(Storage).completedPhases

\* ------------------------------------------------------------ the archive
Archive(ls) == getAssessmentCache(ls).cache

\* C20: cacheFullAssessment() is an upsert under the checkpoint's assessment
\* key: the archive never holds two entries under one key, every entry's key
\* field is the key it is stored under, and archiving writes the entry of its
\* key and, when nothing is evicted, leaves the entries of all other keys as
\* they were.
C20_ArchiveUpsert ==
  [][LET before == Archive(Storage)
         after  == Archive(StorageNext)
         state  == Checkpointed(Storage)
         key    == state.assessmentKey
     IN /\ \A i, j \in 1..Len(after) : after[i].name = after[j].name => i = j
        /\ \A i \in 1..Len(after) : after[i].entry.key = after[i].name
        /\ \A snapshot \in Snapshots :
             (CacheFullAssessment(snapshot) /\ getState(Storage).found /\ key # NoKey) =>
               /\ key \in EntryKeys(after)
               /\ EntryAt(after, key).timestamp = now
               /\ EntryAt(after, key).aiData = snapshot.aiData
               /\ EntryAt(after, key).userScores = state.userScores
               /\ Cardinality(EntryKeys(before) \cup {key}) <= ArchiveLimit =>
                    /\ EntryKeys(after) = EntryKeys(before) \cup {key}
                    /\ \A k \in EntryKeys(before) \ {key} :
                         EntryAt(after, k) = EntryAt(before, k)]_vars

\* two entries, the one stored first archived again after the other
C20_Witness ==
  /\ Len(Archive(Storage)) = 2
  /\ Archive(Storage)[1].entry.timestamp > Archive(Storage)[2].entry.timestamp
  /\ Archive(Storage)[1].entry.aiData[GatingKey] # NoData

\* ------------------------------------------------------------ the host
\* C18: when the operator starts a new run the checkpoint is cleared: right
\* after the input is submitted and the run accepted, the checkpoint records
\* no phase result and no operator score.
C18_NewRunClearsCheckpoint ==
  [][started' > started =>
       /\ Checkpointed(StorageNext).completedPhases = NoPhases
       /\ Checkpointed(StorageNext).userScores = NoScores]_vars

\* the phases whose completion the step announces
NewlyCompleted == {out'[i].phase : i \in {j \in 1..Len(out') : out'[j].type = "phaseComplete"}}

\* C19: the completions of a run, in whatever order they arrive, are applied to
\* the checkpoint one by one and none is lost: from the start of the run on
\* (or from resetAnalysis() on) the checkpoint records exactly the phases whose
\* completion has been announced, each with the announced result, and the state
\* restored after a reload exposes exactly them.
C19_CheckpointTracksCompletions ==
  [][LET before == Checkpointed(Storage).completedPhases
         after  == Checkpointed(StorageNext).completedPhases
         kept   == IF ResetAnalysis \/ started' > started THEN {} ELSE DOMAIN before
     IN /\ DOMAIN after = kept \cup NewlyCompleted
        /\ \A i \in 1..Len(out') :
             out'[i].type = "phaseComplete" =>
               after[out'[i].phase] = out'[i].results[out'[i].phase]
        /\ \A k \in kept \ NewlyCompleted : after[k] = before[k]
        /\ restoreFromState(StorageNext).completedPhases = after
        /\ after # NoPhases => hasIncompleteAnalysis(StorageNext)
                                 \/ Cardinality(DOMAIN after) = 6
                                 \/ Checkpointed(StorageNext).status = "complete"]_vars

\* the archive entries that are no newer than any other
Oldest(cache) ==
  {cache[i].name : i \in {j \in 1..Len(cache) :
                            \A l \in 1..Len(cache) :
                              cache[j].entry.timestamp <= cache[l].entry.timestamp}}

\* C21: after every cacheFullAssessment() the archive holds at most ArchiveLimit
\* entries (50 in the program); archiving a new key into a full archive evicts
\* exactly one entry, one with the oldest timestamp, and never the entry just
\* written; listPastAssessments() then shows the remaining entries, most recent
\* first.
C21_ArchiveRetention ==
  [][\A snapshot \in Snapshots :
       (CacheFullAssessment(snapshot) /\ getState(Storage).found
          /\ Checkpointed(Storage).assessmentKey # NoKey) =>
         LET before == Archive(Storage)
             after  == Archive(StorageNext)
             key    == Checkpointed(Storage).assessmentKey
             listed == listPastAssessments(StorageNext)
         IN /\ Len(after) <= ArchiveLimit
            /\ key \in EntryKeys(after)
            /\ (key \notin EntryKeys(before) /\ Len(before) = ArchiveLimit) =>
                 \E e \in Oldest(before) :
                   /\ EntryKeys(after) = (EntryKeys(before) \ {e}) \cup {key}
                   /\ \A k \in EntryKeys(before) \ {e} : EntryAt(after, k) = EntryAt(before, k)
            /\ {listed[i].key : i \in 1..Len(listed)} = EntryKeys(after)
            /\ Len(listed) = Len(after)
            /\ \A i, j \in 1..Len(listed) :
                 i < j => listed[i].timestamp >= listed[j].timestamp]_vars

\* a full archive whose first entry was archived again and is the newest, and a
\* new key whose archiving evicts the second entry
C21_Witness ==
  /\ Len(Archive(Storage)) = ArchiveLimit
  /\ getState(Storage).found
  /\ Checkpointed(Storage).assessmentKey \notin EntryKeys(Archive(Storage)) \cup {NoKey}
  /\ Archive(Storage)[1].entry.timestamp > Archive(Storage)[2].entry.timestamp
  /\ now > Archive(Storage)[1].entry.timestamp
  /\ LET after == Archive(cacheFullAssessment(Storage, CHOOSE x \in Snapshots : TRUE, now))
     IN /\ Len(after) = ArchiveLimit
        /\ Archive(Storage)[2].name \notin EntryKeys(after)
        /\ Archive(Storage)[1].name \in EntryKeys(after)

\* C22: deleteAssessment(k), its write accepted, removes exactly the entry of
\* key k: loadAssessment(k) then finds nothing and every other key loads the
\* entry it loaded before; for a key the archive does not hold nothing changes;
\* loadAssessment and listPastAssessments never change the archive.
C22_DeleteRemovesOneKey ==
  [][/\ \A key \in ArchiveKeys :
          DeleteAssessment(key, Healthy) =>
            LET before == Archive(Storage)
                after  == Archive(StorageNext)
            IN /\ ~loadAssessment(StorageNext, key).found
               /\ EntryKeys(after) = EntryKeys(before) \ {key}
               /\ \A k \in EntryKeys(after) :
                    loadAssessment(StorageNext, k).entry = loadAssessment(Storage, k).entry
               /\ key \notin EntryKeys(before) => after = before
               /\ stateSlot' = stateSlot
     /\ ((\E key \in ArchiveKeys : LoadAssessment(key)) \/ ListPastAssessments) =>
          /\ Archive(StorageNext) = Archive(Storage)
          /\ stateSlot' = stateSlot]_vars

\* a full archive from which the delete of its first key leaves the second
C22_Witness ==
  /\ Len(Archive(Storage)) = ArchiveLimit
  /\ LET key == Archive(Storage)[1].name
         r == deleteAssessmentQ(Begin(Storage, Healthy), key)
     IN /\ r.writes = 1
        /\ EntryKeys(Archive(r.ls)) = {Archive(Storage)[2].name}
        /\ ~loadAssessment(r.ls, key).found

\* C23: whatever the checkpoint slot holds, getState() returns nothing or a
\* state whose version is of the 2.x series, and a parseable checkpoint of
\* another series is removed from the slot by the read.
C23_ReadValidatesVersion ==
  LET g == getState(Storage)
  IN /\ g.found => IsSeries2(g.state.version)
     /\ (Parses(Storage.state) /\ ~IsSeries2(Storage.state.value.version)) =>
          (~g.found /\ g.ls.state = NoItem)

ArchivedSnapshot == CHOOSE x \in Snapshots : x.ventureName = "A Corp"

\* C24: with unparseable content under the archive key, every operation that
\* reads the archive removes that item and nothing else and goes on as with an
\* empty archive: the checkpoint slot stays as it was, cacheFullAssessment()
\* leaves an archive of exactly the entry it wrote, and checkpoint() stores a
\* checkpoint that getState() returns with the phase in it.
C24_BrokenArchiveIsWiped ==
  [][cacheSlot = BrokenCache =>
       /\ ((\E key \in ArchiveKeys : LoadAssessment(key) \/ DeleteAssessment(key, Healthy))
           \/ ListPastAssessments) =>
            (cacheSlot' = NoCacheItem /\ stateSlot' = stateSlot)
       /\ (CacheFullAssessmentQ(ArchivedSnapshot, Healthy) /\ getState(Storage).found
           /\ Checkpointed(Storage).assessmentKey # NoKey) =>
            /\ stateSlot' = stateSlot
            /\ EntryKeys(Archive(StorageNext)) = {Checkpointed(Storage).assessmentKey}
            /\ loadAssessment(StorageNext, Checkpointed(Storage).assessmentKey).entry.aiData
                 = ArchivedSnapshot.aiData
       /\ CheckpointQ(GatingKey, <<"r1">>, Healthy) =>
            /\ cacheSlot' = cacheSlot
            /\ getState(StorageNext).found
            /\ GatingKey \in DOMAIN Checkpointed(StorageNext).completedPhases
            /\ Checkpointed(StorageNext).completedPhases[GatingKey] = <<"r1">>]_vars

\* an unparseable archive beside a checkpoint with an identity and a phase; the
\* archive write that follows leaves one entry and the same checkpoint
C24_Witness ==
  /\ cacheSlot = BrokenCache
  /\ getState(Storage).found
  /\ Checkpointed(Storage).assessmentKey # NoKey
  /\ Checkpointed(Storage).completedPhases # NoPhases
  /\ LET r == cacheFullAssessmentQ(Begin(Storage, Healthy), ArchivedSnapshot, now)
     IN /\ Len(Archive(r.ls)) = 1
        /\ r.ls.state = stateSlot

RejectsOnce == [first |-> <<FALSE>>, then |-> TRUE, overflow |-> "thrown"]

\* the n most recent entries of an archive
MostRecent(cache, n) ==
  EntryKeys(EvictOldest(cache, IF Len(cache) > n THEN Len(cache) - n ELSE 0))

\* C25: when storage rejects the first write of cacheFullAssessment() for quota
\* and accepts the later ones, the archive stored at the end holds the entry
\* written and, of the entries stored before, no more than PruneLimit (20 in
\* the program), all of them among the most recent ones.
C25_RetryStoresPrunedArchive ==
  [][(CacheFullAssessmentQ(ArchivedSnapshot, RejectsOnce) /\ getState(Storage).found
        /\ Checkpointed(Storage).assessmentKey # NoKey) =>
       LET key     == Checkpointed(Storage).assessmentKey
           before  == DeleteEntry(Archive(Storage), key)
           earlier == EntryKeys(Archive(StorageNext)) \ {key}
       IN /\ key \in EntryKeys(Archive(StorageNext))
          /\ Cardinality(earlier) <= PruneLimit
          /\ earlier \subseteq MostRecent(before, PruneLimit)]_vars

\* C26: whatever storage answers, an operation that writes the archive
\* (cacheFullAssessment, deleteAssessment) ends after at most three setItem
\* calls, the write, the write of the pruned archive and the one retry, and
\* throws nothing to its caller.
C26_ArchiveWriteIsBounded ==
  [][\A q \in QuotaAnswers :
       (CacheFullAssessmentQ(ArchivedSnapshot, q)
        \/ \E key \in ArchiveKeys : DeleteAssessment(key, q)) =>
         (storeOut'.writes <= 3 /\ storeOut'.threw = "none")]_vars

\* C27: whatever localStorage holds and whatever it answers to the writes of
\* the phaseComplete callback (checkpoint(), cacheFullAssessment()), the task in
\* which a phase completes leaves the pipeline exactly as it does with healthy
\* storage: the phase is completed, and statuses, announcements, calls in
\* flight and the terminal outcome are those of the healthy step.
C27_StorageFaultsDoNotReachTheRun ==
  [][\A o \in ops, q \in HostAnswers :
       HostCallReturnsQ(o, TRUE, q) =>
         /\ InstallPipeline(Drain(runPhaseResume(Cur, o, TRUE)))
         /\ status'[o.key] = "completed"]_vars

\* a phase other than the gating one has just completed and nothing else was
\* announced, while every write of its callback was rejected and pruning
\* recursed over the entry archived before
C27_Witness ==
  /\ Len(out) = 1
  /\ out[1].type = "phaseComplete"
  /\ out[1].phase # GatingKey
  /\ status[out[1].phase] = "completed"
  /\ storeOut.writes > 4

\* the host a URL names: scheme, letter case, a trailing slash and a leading
\* "www." set aside
HostOf(url) ==
  IF url \in {"https://A.com/", "a.com", "www.a.com", "https://www.a.com"}
    THEN "a.com"
    ELSE "httpbin.org"

\* C28: the key of the checkpoint is the pair (host of the URL, normalized
\* operator name), and every input with the same host and an operator name
\* that normalizes alike has that same key.
C28_AlikeInputsShareKey ==
  LET g == getState(Storage)
      input == g.state.companyInput
  IN (g.found /\ input # NoInput /\ input.url \in KeyUrls \ {Null}) =>
       /\ g.state.assessmentKey = <<HostOf(input.url), AdvisorKey(input.scaName)>>
       /\ \A c \in KeyInputs :
            (c[1] # Null /\ HostOf(c[1]) = HostOf(input.url)
               /\ AdvisorKey(c[2]) = AdvisorKey(input.scaName)) =>
              generateAssessmentKey(c[1], c[2], c[3]) = g.state.assessmentKey

\* C29: the key of a run started from a document alone has the stem of the
\* file name as its identifier, and an archived document of the same operator
\* with another file name lies under another key.
C29_DocumentKeyIsFileStem ==
  LET g == getState(Storage)
      input == g.state.companyInput
  IN (g.found /\ input # NoInput /\ input.url = "Document Upload"
        /\ input.fileName \in KeyFiles \ {Null}) =>
       /\ g.state.assessmentKey = <<FileStem(input.fileName), AdvisorKey(input.scaName)>>
       /\ \A i \in 1..Len(Archive(Storage)) :
            LET e == Archive(Storage)[i].entry
            IN (e.companyInput # NoInput /\ e.companyInput.url = "Document Upload"
                  /\ e.companyInput.fileName # input.fileName) =>
                 Archive(Storage)[i].name # g.state.assessmentKey

\* the phases of which an archive entry holds a result
Archived(entry) == {k \in Keys : entry.aiData[k] # NoData}

\* C30: the task in which the host handles the gating phase's phaseComplete
\* leaves an archive entry under the key of the checkpoint, and every later
\* task with a phaseComplete leaves under that key an entry with the results
\* of exactly the phases completed so far in the run: those the entry held
\* before, unchanged, and those announced in the task.
C30_ArchiveTracksRun ==
  [][LET key    == Checkpointed(StorageNext).assessmentKey
         before == loadAssessment(Storage, key)
         after  == loadAssessment(StorageNext, key)
         kept   == IF GatingKey \in NewlyCompleted THEN {} ELSE Archived(before.entry)
     IN (/\ NewlyCompleted # {}
         /\ GatingKey \in NewlyCompleted
              \/ (getState(Storage).found /\ Checkpointed(Storage).assessmentKey = key
                    /\ before.found /\ GatingKey \in Archived(before.entry))) =>
          /\ getState(StorageNext).found
          /\ after.found
          /\ Archived(after.entry) = kept \cup NewlyCompleted
          /\ \A i \in 1..Len(out') :
               out'[i].type = "phaseComplete" =>
                 after.entry.aiData[out'[i].phase] = out'[i].results[out'[i].phase]
          /\ \A k \in kept \ NewlyCompleted :
               after.entry.aiData[k] = before.entry.aiData[k]]_vars

\* ------------------------------------------------------------ progress
\* the last task was a reading of the progress
ProgressRead == out # <<>> /\ out[1].type = "progress"

AllSettled == \A k \in Keys : status[k] \in Terminal

\* C31: the percentage returned by getProgress() is 100 exactly when every
\* phase is completed or error and is at most 95 otherwise, whatever the phase
\* states and the elapsed time, and the call changes no state of the
\* orchestrator.  (quarters is the percentage times four.)
C31_FullOnlyWhenSettled ==
  [][ProgressRead' =>
       /\ (out'[1].value.quarters = 400) <=> AllSettled'
       /\ ~AllSettled' => out'[1].value.quarters <= 380
       /\ UNCHANGED pipelineVars]_vars

\* a reading capped at 95 while a phase is still running
C31_Witness ==
  /\ ProgressRead
  /\ ~AllSettled
  /\ out[1].value.contribution = 400
  /\ out[1].value.quarters = 380

\* a step that reads the progress
ReadsProgress == ProgressRead' /\ out' # out

SettledCohort == {k \in Cohort : status[k] \in Terminal}

\* the largest elapsed time of an active cohort phase, raised to 125 when a
\* cohort phase is settled
LongestCohort ==
  Max({0} \cup {now - startTime[k] : k \in {c \in Cohort : status[c] = "active"}}
          \cup (IF SettledCohort # {} THEN {125} ELSE {}))

\* the time since start(), 0 when there is no run
RunElapsed == IF runStart = NoTime THEN 0 ELSE now - runStart

\* the statement of C32 as it stands: once company is completed the
\* contribution is 150 + min(m, 250) in every state of the cohort
C32_ContributionAsStated ==
  [][ReadsProgress =>
       LET v == out'[1].value
       IN /\ status[GatingKey] = "active"
               => v.contribution = Smaller(now - startTime[GatingKey], 150)
          /\ status[GatingKey] = "completed"
               => v.contribution = 150 + Smaller(LongestCohort, 250)
          /\ v.estimated = 400
          /\ v.remaining = Larger(0, 400 - RunElapsed)]_vars

\* C32: with whole-second times the progress contribution is
\* min(elapsed in gating, 150) while company is active; once company is
\* completed it is 150 + min(m, 250) while a cohort phase is not yet settled,
\* m the largest elapsed time of an active cohort phase raised to 125 if a
\* cohort phase is completed or error, and the whole 400 once every cohort
\* phase is settled; the total is 400 and remaining = max(0, 400 - elapsed).
C32_Contribution ==
  [][ReadsProgress =>
       LET v == out'[1].value
       IN /\ status[GatingKey] = "active"
               => v.contribution = Smaller(now - startTime[GatingKey], 150)
          /\ status[GatingKey] = "completed"
               => v.contribution = IF SettledCohort = Cohort THEN 400
                                   ELSE 150 + Smaller(LongestCohort, 250)
          /\ v.estimated = 400
          /\ v.remaining = Larger(0, 400 - RunElapsed)]_vars

\* a reading where a settled cohort phase lifts the estimate over the elapsed
\* time of the phases still running
C32_Witness ==
  /\ ProgressRead
  /\ status[GatingKey] = "completed"
  /\ SettledCohort # {}
  /\ \E k \in Cohort : status[k] = "active" /\ now - startTime[k] < 125
  /\ out[1].value.contribution = 275

\* the percentage (in quarters) a reading would return now
Percentage == getProgress(Cur).quarters

\* C38: within one run, from start() until the next start() or reset(), the
\* percentage returned by getProgress never decreases as time advances and
\* phases change state, a retried phase included.
C38_ProgressNeverDecreases ==
  [][(runStart # NoTime /\ runStart' = runStart /\ started' = started)
       => Percentage' >= Percentage]_vars

\* ---------------------------------------------------------- termination
Runs == 1..MaxStarts

\* the start() invocation of run r has not returned yet
InFlight(r) == \E f \in frames : f.run = r

\* the terminal events of run r among the events of the last task
TerminalEvents(r) ==
  {i \in 1..Len(out) : out[i].run = r
                        /\ out[i].type \in {"complete", "partialComplete", "error"}}

\* C33: provided every issued remote call eventually returns or fails, every
\* accepted start() eventually finishes: exactly one terminal event among
\* complete, partialComplete and error is emitted for it, in the task in which
\* it finishes, and isRunning is false again.
C33_StartFinishes ==
  /\ \A r \in Runs : InFlight(r) ~> (~InFlight(r) /\ ~isRunning)
  /\ [][\A r \in Runs :
          /\ Cardinality(TerminalEvents(r)') =
               (IF InFlight(r) /\ ~InFlight(r)' THEN 1 ELSE 0)
          /\ (InFlight(r) /\ ~InFlight(r)') => ~isRunning'
          /\ (~InFlight(r) /\ InFlight(r)') => (started = r - 1 /\ started' = r)]_vars

\* a run that finished with a partial result while another start() invocation
\* is still waiting
C33_Witness ==
  /\ TerminalEvents(2) # {}
  /\ InFlight(1)

\* ------------------------------------------------- retry of the gating phase
\* the gating call failed in this run and company has been retried: company is
\* active again and the cohort has never been started
GatingRetried ==
  /\ runStart # NoTime
  /\ retried > 0
  /\ status[GatingKey] = "active"
  /\ \A k \in Cohort : status[k] = "pending"

\* C34: after a gating-phase failure, a successful retryPhase('company') in
\* the same run unblocks the downstream work: when the retried company call
\* succeeds, overviewReady is emitted and the five cohort phases leave pending.
C34_RetryUnblocksCohort ==
  [][(GatingRetried /\ status'[GatingKey] = "completed") =>
       /\ \E i \in 1..Len(out') : out'[i].type = "overviewReady"
       /\ \A k \in Cohort : status'[k] # "pending"]_vars

\* ------------------------------------------------------- calls of an old run
\* C35: after reset() no completion or failure of a remote call issued before
\* it changes a phase or announces one: until the next start() every phase is
\* pending without a result and no phase event is emitted.
C35_StaleCallsChangeNothing ==
  [][(runStart = NoTime /\ runStart' = NoTime) =>
       /\ \A k \in Keys : status'[k] = "pending" /\ data'[k] = NoData
       /\ \A i \in 1..Len(out') : out'[i].type \notin PhaseEventTypes]_vars

\* ----------------------------------------------------------- activePhases
ActiveKeys == {k \in Keys : status[k] = "active"}

\* C36: after any sequence of start, retryPhase, cancel, reset and remote-call
\* completions, activePhases holds exactly the keys of the phases whose status
\* is active, and a cancellation signal exists whenever one is active.
C36_ActivePhasesAreTheActive ==
  /\ {activePhases[i] : i \in 1..Len(activePhases)} = ActiveKeys
  /\ ActiveKeys # {} => abortController # "null"

\* ----------------------------------------------------------- Load Previous
ArchiveNow == getAssessmentCache(Storage).cache

\* C37: restoring a previously archived assessment writes to no archive entry
\* stored under a different identity key: every other entry, the one of the
\* assessment named by the current checkpoint included, keeps its phase
\* results and scores.
C37_RestoreKeepsOtherEntries ==
  [][\A key \in RestoreKeys :
       LoadPrevious(key) =>
         \A other \in EntryKeys(ArchiveNow) \ {key} :
           /\ other \in EntryKeys(ArchiveNow')
           /\ EntryAt(ArchiveNow', other).aiData = EntryAt(ArchiveNow, other).aiData
           /\ EntryAt(ArchiveNow', other).userScores = EntryAt(ArchiveNow, other).userScores]_vars

\* --------------------------------------------------------------- StackProxy
\* C39: StackProxy.init never has two config fetches in flight: the init()
\* calls made before the config is loaded share one fetch, and once the config
\* is loaded no further fetch is issued.
C39_OneConfigFetch ==
  [][/\ proxy'.fetching <= 1
     /\ proxy.fetching > 0 => proxy'.fetched = proxy.fetched
     /\ proxy.config # "null" => proxy'.fetched = proxy.fetched]_vars

\* three init() calls waiting for the one fetch in flight
C39_Witness ==
  /\ proxy.inits = 3
  /\ proxy.fetching = 1
  /\ proxy.fetched = 1

\* ---------------------------------------------------- SmartsheetIntegration
\* the submission calls of the step: the requests it put in flight
Sent == sheet'.inflight \ sheet.inflight

\* at most one submission in flight; a call made meanwhile fails and sends
\* nothing; isSubmitting is false once the submission has settled; with a
\* stored row id a submission is an update
C40_Mutex ==
  [][/\ Cardinality(sheet'.inflight) <= 1
     /\ (sheet.inflight # {} /\ sheet'.submitted > sheet.submitted) =>
          (Sent = {} /\ out'[1].success = FALSE)
     /\ sheet'.inflight = {} => ~sheet'.isSubmitting
     /\ \A q \in Sent : getCurrentRowId(sheet, Storage) # Null => q.action = "update"]_vars

\* C40: at most one spreadsheet submission is in flight at a time: a call
\* made while another is in flight returns a failure without sending anything,
\* isSubmitting is false again after every submission, successful or not, and
\* while the stored row id is non-empty every submission is an update, so that
\* one assessment creates at most one row.
C40_OneSubmissionOneRow ==
  [][/\ Cardinality(sheet'.inflight) <= 1
     /\ (sheet.inflight # {} /\ sheet'.submitted > sheet.submitted) =>
          (Sent = {} /\ out'[1].success = FALSE)
     /\ sheet'.inflight = {} => ~sheet'.isSubmitting
     /\ \A q \in Sent : getCurrentRowId(sheet, Storage) # Null => q.action = "update"
     /\ sheet'.rows <= 1]_vars

====
